---------------------------- MODULE Spec2Model ----------------------------
(***************************************************************************)
(* Model of apple-eventkit-mcp: the hashtag tag codec (tags.py), the item  *)
(* store wrapper (eventkit_store.py), the permission gate (permissions.py) *)
(* and the tool layer (calendar_tools.py, reminder_tools.py, server.py),   *)
(* with the permission setup script (scripts/setup_permissions.py).        *)
(*                                                                         *)
(* Text is a sequence of one-character strings.  Python's None is the      *)
(* one-element sequence <<"None">>, which no text equals because "None" is *)
(* not a character; a list argument that is None is << None >>.            *)
(***************************************************************************)
EXTENDS Integers, Sequences, FiniteSets, TLC

VARIABLES
    authStatus,   \* category -> the authorization status the OS reports
    items,        \* native store: internal identifier -> calendar item
    nextId,       \* next identifier the native store hands out
    call,         \* the tool call being answered (tool name and arguments)
    resp,         \* the mapping returned by that tool call
    native,       \* whether that tool call used the native store handle
    lock,         \* EventKitStore._lock: the thread holding it, 0 when free
    pc,           \* thread -> where the thread is in its tool call
    job,          \* thread -> the tool the thread is running
    fetch,        \* thread -> the reminder fetch of its call: its completion
    tagNotes,     \* codec run: notes argument
    tagList,      \* codec run: tags argument
    tagStage,     \* codec run: "in" | "merged" | "decoded"
    tagMerged,    \* codec run: merge_notes_with_tags(tagNotes, tagList)
    tagDecoded,   \* codec run: decode_tags(tagMerged)
    ledger,       \* TCC.db access table: client -> service -> its grant
    stage,        \* setup script: where main is
    cursor,       \* setup script: index of the client try_grant_via_tcc_db is at
    granted,      \* setup script: the list try_grant_via_tcc_db collects
    log           \* setup script: what try_grant_via_tcc_db has printed

vars == <<authStatus, items, nextId, call, resp, native,
          lock, pc, job, fetch,
          tagNotes, tagList, tagStage, tagMerged, tagDecoded,
          ledger, stage, cursor, granted, log>>

storeVars == <<authStatus, items, nextId, call, resp, native>>
threadVars == <<lock, pc, job, fetch>>
codecVars == <<tagNotes, tagList, tagStage, tagMerged, tagDecoded>>
setupVars == <<ledger, stage, cursor, granted, log>>

---------------------------------------------------------------------------
(* Bounds of the model *)

MaxLen == 4       \* longest enumerated notes text in a codec run
MaxTags == 2      \* longest tags list in a codec run
MaxItems == 1     \* items the native store creates in one run
MaxThreads == 2   \* threads answering tool calls at the same time
MaxListed == 2    \* items the native store holds in a listing run
MaxClients == 2   \* clients of KNOWN_MCP_CLIENTS the setup script goes through

---------------------------------------------------------------------------
(* Python values *)

None == <<"None">>
NoneList == << None >>

Min(S) == CHOOSE x \in S : \A y \in S : x <= y
Max(S) == CHOOSE x \in S : \A y \in S : x >= y

UpperCase == <<"A","B","C","D","E","F","G","H","I","J","K","L","M",
               "N","O","P","Q","R","S","T","U","V","W","X","Y","Z">>
LowerCase == <<"a","b","c","d","e","f","g","h","i","j","k","l","m",
               "n","o","p","q","r","s","t","u","v","w","x","y","z">>
Digits == <<"0","1","2","3","4","5","6","7","8","9">>

\* code point order of the characters a normalized tag can hold
CodeOrder == Digits \o <<"_">> \o LowerCase

Range(f) == {f[i] : i \in DOMAIN f}

\* str.lower() on one character
LowerChar(c) ==
    IF c \in Range(UpperCase)
    THEN LowerCase[CHOOSE i \in 1..26 : UpperCase[i] = c]
    ELSE c

\* str.lower()
Lower(s) == [i \in 1..Len(s) |-> LowerChar(s[i])]

\* \s of the re module, and what str.strip() removes
IsSpace(c) == c \in {" ", "\n", "\t"}

\* [a-z0-9_] under re.IGNORECASE
IsTagChar(c) ==
    c \in Range(LowerCase) \cup Range(UpperCase) \cup Range(Digits) \cup {"_"}

\* [a-z0-9_] without IGNORECASE
IsNormChar(c) == c \in Range(CodeOrder)

\* str.strip()
Strip(s) ==
    LET keep == {i \in 1..Len(s) : ~IsSpace(s[i])}
    IN  IF keep = {} THEN <<>> ELSE SubSeq(s, Min(keep), Max(keep))

\* Python truthiness of a str | None
TruthyStr(v) == v # None /\ v # <<>>

\* Python truthiness of a list | None
TruthyList(v) == v # NoneList /\ v # <<>>

---------------------------------------------------------------------------
(* tags.py *)

\* ((?:#[a-z0-9_]+\s*)+)$ matches s[j..Len(s)]
IsHashtagRun(s, j) ==
    /\ j >= 1 /\ j <= Len(s)
    /\ s[j] = "#"
    /\ \A k \in j..Len(s) :
          \/ s[k] = "#" /\ k < Len(s) /\ IsTagChar(s[k+1])
          \/ IsTagChar(s[k]) /\ k > j /\ (s[k-1] = "#" \/ IsTagChar(s[k-1]))
          \/ IsSpace(s[k])

\* HASHTAG_LINE_PATTERN.search(s): where group 1 starts (0: no match).
\* The group starts at the start of the text (^) or right after a newline.
HashtagLineGroup(s) ==
    LET starts == {j \in 1..Len(s) :
                      (j = 1 \/ s[j-1] = "\n") /\ IsHashtagRun(s, j)}
    IN  IF starts = {} THEN 0 ELSE Min(starts)

\* where the match itself starts: the leading \n* takes the whole run of
\* newlines in front of the group
HashtagLineStart(s) ==
    LET g == HashtagLineGroup(s)
    IN  IF g = 0 THEN 0
        ELSE Min({i \in 1..g : \A k \in i..(g-1) : s[k] = "\n"})

\* the run of tag characters that starts at s[k]
RECURSIVE TagRun(_, _)
TagRun(s, k) ==
    IF k > Len(s) \/ ~IsTagChar(s[k]) THEN <<>>
    ELSE <<s[k]>> \o TagRun(s, k + 1)

\* HASHTAG_PATTERN.findall(s), scanning from s[k]
RECURSIVE FindallFrom(_, _)
FindallFrom(s, k) ==
    IF k > Len(s) THEN <<>>
    ELSE IF s[k] = "#" /\ k < Len(s) /\ IsTagChar(s[k+1])
         THEN <<TagRun(s, k + 1)>> \o FindallFrom(s, k + 1 + Len(TagRun(s, k + 1)))
         ELSE FindallFrom(s, k + 1)

\* re.sub(r'[\s-]+', '_', s)
RECURSIVE CollapseSeparators(_)
CollapseSeparators(s) ==
    IF s = <<>> THEN <<>>
    ELSE IF IsSpace(s[1]) \/ s[1] = "-"
         THEN IF Len(s) > 1 /\ (IsSpace(s[2]) \/ s[2] = "-")
              THEN CollapseSeparators(Tail(s))
              ELSE <<"_">> \o CollapseSeparators(Tail(s))
         ELSE <<s[1]>> \o CollapseSeparators(Tail(s))

_normalize_tag(tag) ==
    SelectSeq(CollapseSeparators(Lower(Strip(tag))), IsNormChar)

\* a < b for str (code point order, a proper prefix first)
RECURSIVE StrLess(_, _)
StrLess(a, b) ==
    IF b = <<>> THEN FALSE
    ELSE IF a = <<>> THEN TRUE
    ELSE IF a[1] = b[1] THEN StrLess(Tail(a), Tail(b))
    ELSE (CHOOSE i \in 1..Len(CodeOrder) : CodeOrder[i] = a[1])
           < (CHOOSE i \in 1..Len(CodeOrder) : CodeOrder[i] = b[1])

\* sorted(l) for a list of distinct normalized tags
RECURSIVE SortedTags(_)
SortedTags(l) ==
    IF l = <<>> THEN <<>>
    ELSE LET m == CHOOSE i \in 1..Len(l) :
                     \A j \in 1..Len(l) : j = i \/ ~StrLess(l[j], l[i])
         IN  <<l[m]>> \o SortedTags([i \in 1..(Len(l) - 1) |->
                                       IF i < m THEN l[i] ELSE l[i + 1]])

\* the loop of encode_tags: drop empty strings and duplicates, keep order
RECURSIVE UniqueTags(_, _)
UniqueTags(l, seen) ==
    IF l = <<>> THEN <<>>
    ELSE IF l[1] # <<>> /\ l[1] \notin seen
         THEN <<l[1]>> \o UniqueTags(Tail(l), seen \cup {l[1]})
         ELSE UniqueTags(Tail(l), seen)

\* " ".join(f"#{tag}" for tag in l)
RECURSIVE JoinHashtags(_)
JoinHashtags(l) ==
    IF l = <<>> THEN <<>>
    ELSE IF Len(l) = 1 THEN <<"#">> \o l[1]
    ELSE <<"#">> \o l[1] \o <<" ">> \o JoinHashtags(Tail(l))

RECURSIVE NormalizeAll(_)
NormalizeAll(l) ==
    IF l = <<>> THEN <<>>
    ELSE IF Strip(l[1]) # <<>>
         THEN <<_normalize_tag(l[1])>> \o NormalizeAll(Tail(l))
         ELSE NormalizeAll(Tail(l))

encode_tags(tags) ==
    IF ~TruthyList(tags) THEN <<>>
    ELSE LET unique == UniqueTags(NormalizeAll(tags), {})
         IN  IF unique = <<>> THEN <<>>
             ELSE <<"\n", "\n">> \o JoinHashtags(SortedTags(unique))

\* decode_tags returns the pair <<clean_notes, tags>>
decode_tags(notes) ==
    IF ~TruthyStr(notes) THEN << <<>>, <<>> >>
    ELSE IF HashtagLineGroup(notes) = 0 THEN <<notes, <<>>>>
    ELSE LET found == FindallFrom(notes, HashtagLineGroup(notes))
         IN  << Strip(SubSeq(notes, 1, HashtagLineStart(notes) - 1)),
                [i \in 1..Len(found) |-> Lower(found[i])] >>

\* merge_notes_with_tags returning clean_notes.strip() in its second branch
merge_notes_with_tags_Stripping(notes, tags) ==
    LET clean_notes == decode_tags(notes)[1]
        tag_string == encode_tags(tags)
    IN  IF clean_notes # <<>> /\ tag_string # <<>> THEN clean_notes \o tag_string
        ELSE IF clean_notes # <<>> THEN Strip(clean_notes)
        ELSE IF tag_string # <<>> THEN Strip(tag_string)
        ELSE <<>>

merge_notes_with_tags(notes, tags) ==
    LET clean_notes == decode_tags(notes)[1]
        tag_string == encode_tags(tags)
    IN  IF clean_notes # <<>> /\ tag_string # <<>> THEN clean_notes \o tag_string
        ELSE IF clean_notes # <<>> THEN clean_notes
        ELSE IF tag_string # <<>> THEN Strip(tag_string)
        ELSE <<>>

\* filter_by_tags over a list of item dicts, read through their "notes" key
filter_by_tags(itemList, required_tags) ==
    IF ~TruthyList(required_tags) THEN itemList
    ELSE LET normalized_required == NormalizeAll(required_tags)
         IN  IF normalized_required = <<>> THEN itemList
             ELSE LET HasAll(item) ==
                          LET item_tags == decode_tags(item.notes)[2]
                              item_tags_normalized ==
                                  {_normalize_tag(item_tags[i]) : i \in 1..Len(item_tags)}
                          IN  \A r \in Range(normalized_required) :
                                  r \in item_tags_normalized
                  IN  SelectSeq(itemList, HasAll)

---------------------------------------------------------------------------
(* permissions.py *)

Categories == {"event", "reminder"}

\* AuthorizationStatus, by the lower-case name get_status_name gives
Statuses == {"not_determined", "restricted", "denied", "authorized", "write_only"}

check_calendar_permission ==
    [ status |-> authStatus["event"],
      authorized |-> authStatus["event"] = "authorized",
      can_request |-> authStatus["event"] \in {"not_determined", "write_only"} ]

\* check_reminders_permission with the can_request of the events category
check_reminders_permission_Upgradable ==
    [ status |-> authStatus["reminder"],
      authorized |-> authStatus["reminder"] = "authorized",
      can_request |-> authStatus["reminder"] \in {"not_determined", "write_only"} ]

check_reminders_permission ==
    [ status |-> authStatus["reminder"],
      authorized |-> authStatus["reminder"] = "authorized",
      can_request |-> authStatus["reminder"] = "not_determined" ]

\* the instruction lines, each named by category and case
get_permission_instructions(calendar, reminders) ==
    (IF calendar.authorized THEN <<>>
     ELSE IF calendar.status = "write_only" THEN <<"calendar_write_only">>
     ELSE IF calendar.status = "denied" THEN <<"calendar_denied">>
     ELSE IF calendar.status = "restricted" THEN <<"calendar_restricted">>
     ELSE <<"calendar_not_granted">>)
    \o
    (IF reminders.authorized THEN <<>>
     ELSE IF reminders.status = "denied" THEN <<"reminders_denied">>
     ELSE IF reminders.status = "restricted" THEN <<"reminders_restricted">>
     ELSE <<"reminders_not_granted">>)

check_permissions ==
    LET calendar == check_calendar_permission
        reminders == check_reminders_permission
        all_authorized == calendar.authorized /\ reminders.authorized
    IN  IF all_authorized
        THEN [ calendar |-> calendar, reminders |-> reminders,
               all_authorized |-> all_authorized ]
        ELSE [ calendar |-> calendar, reminders |-> reminders,
               all_authorized |-> all_authorized,
               instructions |-> get_permission_instructions(calendar, reminders) ]

\* the gate letting write-only access through
require_calendar_permission_WriteOnly ==
    check_calendar_permission.status \notin {"authorized", "write_only"}

\* require_*_permission: TRUE when PermissionError is raised
require_calendar_permission == ~check_calendar_permission.authorized

\* the reminders gate asking for both categories
require_reminders_permission_Both ==
    ~(check_reminders_permission.authorized /\ check_calendar_permission.authorized)

require_reminders_permission == ~check_reminders_permission.authorized

\* what the OS makes of a consent request: it grants, it denies, or it shows
\* no dialog and the status stays
RequestOutcomes == {"authorized", "denied", "unanswered"}

\* request_calendar_access / request_reminders_access: the statuses after the
\* OS has answered the request for full access to that category
request_calendar_access(outcome) ==
    IF outcome = "unanswered" THEN authStatus
    ELSE [authStatus EXCEPT !["event"] = outcome]

request_reminders_access(outcome) ==
    IF outcome = "unanswered" THEN authStatus
    ELSE [authStatus EXCEPT !["reminder"] = outcome]

---------------------------------------------------------------------------
(* scripts/setup_permissions.py: the TCC database *)

KNOWN_MCP_CLIENTS ==
    << "com.microsoft.VSCode", "com.microsoft.VSCodeInsiders",
       "com.todesktop.230313mzl4w4u92", "com.anthropic.claude",
       "com.codeium.windsurf" >>

\* the clients of the list a run goes through
Clients == SubSeq(KNOWN_MCP_CLIENTS, 1, MaxClients)

Services == {"kTCCServiceCalendar", "kTCCServiceReminders"}

\* what the access table holds for a client and a service: no row, a row
\* with auth_value 2 (authorized), a row with another auth_value (denied)
Grants == {"absent", "denied", "authorized"}

\* readable: the connection and the SELECT raised nothing
_tcc_has_permission(client, service, readable) ==
    readable /\ ledger[client][service] = "authorized"

\* the access table after INSERT OR REPLACE ... SELECT: the row of from_service
\* copied to to_service, nothing when the client has no row for from_service
_tcc_copy_permission(client, from_service, to_service) ==
    IF ledger[client][from_service] = "absent" THEN ledger
    ELSE [ledger EXCEPT ![client][to_service] = ledger[client][from_service]]

---------------------------------------------------------------------------
(* Dates.  An instant is Dt(day); the caller writes dates as strings. *)

Dt(n) == <<"dt", n>>

\* datetime.now()
Now == Dt(0)

\* timedelta(days = n) added to an instant
PlusDays(d, n) == Dt(d[2] + n)

\* the date strings of the model that datetime.fromisoformat accepts (after
\* replace("Z", "+00:00")), with the day each one denotes
IsoDay ==
    [ s \in {"2025-03-01T09:00:00", "2025-03-02T09:00:00Z", "2025-03-03",
             "2025-09-01T09:00:00", "2027-03-01T09:00:00",
             "9999-12-31T09:00:00"} |->
        CASE s = "2025-03-01T09:00:00" -> 1
          [] s = "2025-03-02T09:00:00Z" -> 2
          [] s = "2025-03-03" -> 3
          [] s = "2025-09-01T09:00:00" -> 185
          [] s = "2027-03-01T09:00:00" -> 731
          [] s = "9999-12-31T09:00:00" -> 2912749 ]

\* TRUE when datetime.fromisoformat raises ValueError
IsoRaises(s) == s \notin DOMAIN IsoDay

fromisoformat(s) == Dt(IsoDay[s])

\* _nsdate_to_iso / _components_to_iso: datetime.isoformat() of the instant,
\* as the one-element sequence holding the string (None for no date)
isoformat(d) ==
    IF d = None THEN None
    ELSE CASE d[2] = 1 -> <<"2025-03-01T09:00:00">>
           [] d[2] = 2 -> <<"2025-03-02T09:00:00">>
           [] d[2] = 3 -> <<"2025-03-03T00:00:00">>
           [] d[2] = 185 -> <<"2025-09-01T09:00:00">>
           [] d[2] = 731 -> <<"2027-03-01T09:00:00">>
           [] d[2] = 2912749 -> <<"9999-12-31T09:00:00">>
           [] OTHER -> <<"2025-02-28T12:00:00">>

---------------------------------------------------------------------------
(* The native store, as eventkit_store.py uses it *)

CREATED_BY_NOTE ==
    <<"C","r","e","a","t","e","d"," ","b","y"," ",
      "C","l","a","u","d","e"," ","D","e","s","k","t","o","p">>

\* identifiers are opaque: the internal and the external identifier of item n
InternalId(n) == <<"id", n>>
ExternalId(n) == <<"ext", n>>

\* calendarsForEntityType_, by title, and the default calendar of each type
EventCalendars == << <<"H","o","m","e">>, <<"W","o","r","k">> >>
ReminderLists == << <<"T","o","d","o">>, <<"S","h","o","p">> >>
defaultCalendarForNewEvents == EventCalendars[1]
defaultCalendarForNewReminders == ReminderLists[1]

ItemIds == DOMAIN items
EventIds == {n \in ItemIds : items[n].kind = "event"}
ReminderIds == {n \in ItemIds : items[n].kind = "reminder"}

\* calendarItemWithIdentifier_: the item number, 0 for nil
calendarItemWithIdentifier_(ident) ==
    IF ident[1] = "id" /\ ident[2] \in ItemIds THEN ident[2] ELSE 0

\* eventsMatchingPredicate_ for predicateForEventsWithStartDate_endDate_calendars_
eventsMatchingPredicate_(start, end, calendars) ==
    {n \in EventIds : /\ items[n].calendar \in Range(calendars)
                      /\ items[n].start[2] <= end[2]
                      /\ items[n].end[2] >= start[2]}

\* predicateForRemindersInCalendars_
remindersInCalendars(calendars) ==
    {n \in ReminderIds : items[n].calendar \in Range(calendars)}

\* predicateForIncompleteRemindersWithDueDateStarting_ending_calendars_(None, ending, ..)
incompleteReminders(ending, calendars) ==
    {n \in ReminderIds : /\ items[n].calendar \in Range(calendars)
                         /\ ~items[n].completed
                         /\ (ending = None
                             \/ (items[n].due # None /\ items[n].due[2] <= ending[2]))}

\* what a store with item n written (or removed) looks like
WithItem(n, it) == [k \in ItemIds \cup {n} |-> IF k = n THEN it ELSE items[k]]
WithoutItem(n) == [k \in ItemIds \ {n} |-> items[k]]

---------------------------------------------------------------------------
(* eventkit_store.py: helpers *)

\* _find_calendar_unlocked comparing the titles as they are written
_find_calendar_unlocked_Exact(name) ==
    LET hits == {i \in DOMAIN EventCalendars : EventCalendars[i] = name}
    IN  IF hits = {} THEN None ELSE EventCalendars[Min(hits)]

_find_calendar_unlocked(name) ==
    LET hits == {i \in DOMAIN EventCalendars : Lower(EventCalendars[i]) = Lower(name)}
    IN  IF hits = {} THEN None ELSE EventCalendars[Min(hits)]

_find_reminder_list_unlocked(name) ==
    LET hits == {i \in DOMAIN ReminderLists : Lower(ReminderLists[i]) = Lower(name)}
    IN  IF hits = {} THEN None ELSE ReminderLists[Min(hits)]

_event_to_dict(n, e) ==
    LET decoded == decode_tags(IF e.notes = None THEN <<>> ELSE e.notes)
    IN  [ id |-> InternalId(n),
          external_id |-> ExternalId(n),
          title |-> e.title,
          start_date |-> isoformat(e.start),
          end_date |-> isoformat(e.end),
          location |-> e.location,
          notes |-> decoded[1],
          tags |-> decoded[2],
          calendar |-> e.calendar,
          is_all_day |-> e.all_day,
          url |-> e.url,
          has_recurrence |-> FALSE ]

\* _reminder_to_dict handing out the stored notes as they are
_reminder_to_dict_Raw(n, r) ==
    LET decoded == decode_tags(IF r.notes = None THEN <<>> ELSE r.notes)
    IN  [ id |-> InternalId(n),
          external_id |-> ExternalId(n),
          title |-> r.title,
          notes |-> IF r.notes = None THEN <<>> ELSE r.notes,
          tags |-> decoded[2],
          list |-> r.calendar,
          due_date |-> isoformat(r.due),
          priority |-> CASE r.priority = 1 -> "high"
                         [] r.priority = 5 -> "medium"
                         [] r.priority = 9 -> "low"
                         [] OTHER -> "none",
          completed |-> r.completed,
          completion_date |-> isoformat(r.completion_date) ]

_reminder_to_dict(n, r) ==
    LET decoded == decode_tags(IF r.notes = None THEN <<>> ELSE r.notes)
    IN  [ id |-> InternalId(n),
          external_id |-> ExternalId(n),
          title |-> r.title,
          notes |-> decoded[1],
          tags |-> decoded[2],
          list |-> r.calendar,
          due_date |-> isoformat(r.due),
          priority |-> CASE r.priority = 1 -> "high"
                         [] r.priority = 5 -> "medium"
                         [] r.priority = 9 -> "low"
                         [] OTHER -> "none",
          completed |-> r.completed,
          completion_date |-> isoformat(r.completion_date) ]

\* the item number of the event with this external identifier in the window
\* of 365 days around now, 0 for None
_find_event_by_external_id(external_id) ==
    LET found == {n \in eventsMatchingPredicate_(PlusDays(Now, 0 - 365),
                                                 PlusDays(Now, 365), EventCalendars) :
                     ExternalId(n) = external_id}
    IN  IF found = {} THEN 0 ELSE Min(found)

\* _find_event_by_any_id without the isinstance(item, EKEvent) test
_find_event_by_any_id_AnyKind(event_id) ==
    LET item == calendarItemWithIdentifier_(event_id)
    IN  IF item # 0 THEN item
        ELSE _find_event_by_external_id(event_id)

_find_event_by_any_id(event_id) ==
    LET item == calendarItemWithIdentifier_(event_id)
    IN  IF item # 0 /\ items[item].kind = "event" THEN item
        ELSE _find_event_by_external_id(event_id)

\* arrived: the fetch completion came before result was read
_find_reminder_by_external_id(external_id, arrived) ==
    LET found == {n \in remindersInCalendars(ReminderLists) :
                     ExternalId(n) = external_id}
    IN  IF ~arrived \/ found = {} THEN 0 ELSE Min(found)

_find_reminder_by_any_id(reminder_id, arrived) ==
    LET item == calendarItemWithIdentifier_(reminder_id)
    IN  IF item # 0 /\ items[item].kind = "reminder" THEN item
        ELSE _find_reminder_by_external_id(reminder_id, arrived)

\* priority_map.get(priority.lower(), 0)
PriorityValue(priority) ==
    CASE priority = <<"h","i","g","h">> -> 1
      [] priority = <<"m","e","d","i","u","m">> -> 5
      [] priority = <<"l","o","w">> -> 9
      [] OTHER -> 0

\* l[-limit:]: the cut keeping the end of the list
Take_FromEnd(l, limit) == SubSeq(l, IF limit < Len(l) THEN Len(l) - limit + 1 ELSE 1, Len(l))

\* l[:limit] for limit >= 0
Take(l, limit) == SubSeq(l, 1, IF limit < Len(l) THEN limit ELSE Len(l))

\* sorted(events, key = start date): the item numbers in ascending order of
\* start, ties in the native store's order (by item number)
RECURSIVE EventsByStart(_)
EventsByStart(S) ==
    IF S = {} THEN <<>>
    ELSE LET m == CHOOSE n \in S :
                     \A k \in S : \/ items[n].start[2] < items[k].start[2]
                                  \/ (items[n].start[2] = items[k].start[2] /\ n <= k)
         IN  <<m>> \o EventsByStart(S \ {m})

\* the numbers the string isoformat gives for an instant is written with, in
\* the order it writes them.  The strings are zero-padded and of one layout,
\* so one of them is less than another (as str) exactly when its numbers are,
\* one after the other, a proper prefix first.
IsoFields(d) ==
    CASE d[2] = 1 -> <<2025, 3, 1, 9, 0, 0>>
      [] d[2] = 2 -> <<2025, 3, 2, 9, 0, 0>>
      [] d[2] = 3 -> <<2025, 3, 3, 0, 0, 0>>
      [] d[2] = 185 -> <<2025, 9, 1, 9, 0, 0>>
      [] d[2] = 731 -> <<2027, 3, 1, 9, 0, 0>>
      [] d[2] = 2912749 -> <<9999, 12, 31, 9, 0, 0>>
      [] OTHER -> <<2025, 2, 28, 12, 0, 0>>

\* the key of a reminder without a due date: the string "9999-12-31"
NoDueKey == <<9999, 12, 31>>

\* the sort key r.get("due_date") or "9999-12-31"
DueKey(n) == IF items[n].due = None THEN NoDueKey ELSE IsoFields(items[n].due)

\* a < b for two sort keys
RECURSIVE KeyLess(_, _)
KeyLess(a, b) ==
    IF b = <<>> THEN FALSE
    ELSE IF a = <<>> THEN TRUE
    ELSE IF a[1] = b[1] THEN KeyLess(Tail(a), Tail(b))
    ELSE a[1] < b[1]

\* results.sort(key = the due date string, "9999-12-31" for None), ties in
\* fetch order
RECURSIVE RemindersByDue(_)
RemindersByDue(S) ==
    IF S = {} THEN <<>>
    ELSE LET m == CHOOSE n \in S :
                     \A k \in S : \/ KeyLess(DueKey(n), DueKey(k))
                                  \/ (~KeyLess(DueKey(k), DueKey(n)) /\ n <= k)
         IN  <<m>> \o RemindersByDue(S \ {m})

---------------------------------------------------------------------------
(* eventkit_store.py: operations.  Each gives what it raises (exc), what it *)
(* returns (ret) and the native store it leaves (items, nextId).  The      *)
(* parameters saved / removed / arrived are the native store's answers:    *)
(* whether the save or remove succeeded, and whether the reminder fetch    *)
(* completion came before the wait ended.  native tells whether the        *)
(* operation got to its "with self._lock" section, where the handle of the *)
(* native store is used.                                                   *)

\* require_*_permission raising, ahead of the locked section
RaisePermissionError ==
    [exc |-> "PermissionError", ret |-> None, isNone |-> TRUE, items |-> items, nextId |-> nextId, native |-> FALSE]
Raise(e) ==
    [exc |-> e, ret |-> None, isNone |-> TRUE, items |-> items, nextId |-> nextId, native |-> TRUE]
Return(v) ==
    [exc |-> "none", ret |-> v, isNone |-> FALSE, items |-> items, nextId |-> nextId, native |-> TRUE]
ReturnNone ==
    [exc |-> "none", ret |-> None, isNone |-> TRUE, items |-> items, nextId |-> nextId, native |-> TRUE]
ReturnWith(v, its, nid) ==
    [exc |-> "none", ret |-> v, isNone |-> FALSE, items |-> its, nextId |-> nid, native |-> TRUE]

True == <<"True">>
False == <<"False">>

\* sub in s
IsSubstring(sub, s) ==
    \E i \in 0..(Len(s) - Len(sub)) : SubSeq(s, i + 1, i + Len(sub)) = sub

OrEmpty(v) == IF v = None THEN <<>> ELSE v

_calendar_to_dict(title) == [id |-> <<"cal", title>>, title |-> title,
                             allows_modifications |-> TRUE]

get_calendars ==
    IF require_calendar_permission THEN RaisePermissionError
    ELSE Return([i \in DOMAIN EventCalendars |-> _calendar_to_dict(EventCalendars[i])])

get_events(start, end, calendar_name, limit) ==
    IF require_calendar_permission THEN RaisePermissionError
    ELSE LET cal == IF TruthyStr(calendar_name)
                    THEN _find_calendar_unlocked(calendar_name) ELSE None
             calendars == IF TruthyStr(calendar_name)
                          THEN (IF cal # None THEN <<cal>> ELSE <<>>)
                          ELSE EventCalendars
         IN  IF calendars = <<>> THEN Return(<<>>)
             ELSE LET sorted_events ==
                          EventsByStart(eventsMatchingPredicate_(start, end, calendars))
                      kept == Take(sorted_events, limit)
                  IN  Return([i \in 1..Len(kept) |-> _event_to_dict(kept[i], items[kept[i]])])

get_event_by_id(event_id) ==
    IF require_calendar_permission THEN RaisePermissionError
    ELSE LET event == calendarItemWithIdentifier_(event_id)
         IN  IF event # 0 /\ items[event].kind = "event"
             THEN Return(_event_to_dict(event, items[event]))
             ELSE LET byExt == _find_event_by_external_id(event_id)
                  IN  IF byExt # 0 THEN Return(_event_to_dict(byExt, items[byExt]))
                      ELSE ReturnNone

create_event(title, start, end, calendar_name, location, notes, url, is_all_day, tags, saved) ==
    IF require_calendar_permission THEN RaisePermissionError
    ELSE LET cal == IF TruthyStr(calendar_name)
                    THEN _find_calendar_unlocked(calendar_name) ELSE None
             notes_with_attribution ==
                 IF TruthyStr(notes) THEN CREATED_BY_NOTE \o <<"\n", "\n">> \o notes
                 ELSE CREATED_BY_NOTE
             event == [ kind |-> "event",
                        title |-> title,
                        start |-> start,
                        end |-> end,
                        all_day |-> is_all_day,
                        calendar |-> IF cal # None THEN cal
                                     ELSE defaultCalendarForNewEvents,
                        location |-> IF TruthyStr(location) THEN location ELSE None,
                        url |-> IF TruthyStr(url) THEN url ELSE None,
                        notes |-> merge_notes_with_tags(notes_with_attribution, tags) ]
         IN  IF ~saved THEN Raise("Exception")
             ELSE ReturnWith(_event_to_dict(nextId, event),
                             WithItem(nextId, event), nextId + 1)

\* the notes an edit stores: None when neither notes nor tags is given
\* the notes of an edit that does not read the current notes: what is not
\* given is taken as empty
EditedNotes_Blind(current, notes, tags) ==
    IF notes # None \/ tags # NoneList
    THEN LET clean_notes == IF notes # None THEN notes ELSE <<>>
             existing_tags == IF tags # NoneList THEN tags ELSE <<>>
             final_notes == merge_notes_with_tags(clean_notes, existing_tags)
         IN  IF final_notes # <<>> THEN final_notes ELSE None
    ELSE current

EditedNotes(current, notes, tags) ==
    IF notes # None \/ tags # NoneList
    THEN LET decoded == decode_tags(OrEmpty(current))
             clean_notes == IF notes # None THEN notes ELSE decoded[1]
             existing_tags == IF tags # NoneList THEN tags ELSE decoded[2]
             final_notes == merge_notes_with_tags(clean_notes, existing_tags)
         IN  IF final_notes # <<>> THEN final_notes ELSE None
    ELSE current

edit_event(event_id, span, title, start, end, location, notes, url, tags, saved) ==
    IF require_calendar_permission THEN RaisePermissionError
    ELSE LET n == _find_event_by_any_id(event_id)
         IN  IF n = 0 THEN Raise("ValueError")
             ELSE LET event ==
                          [ items[n] EXCEPT
                              !.title = IF title # None THEN title ELSE @,
                              !.start = IF start # None THEN start ELSE @,
                              !.end = IF end # None THEN end ELSE @,
                              !.location = IF location # None THEN location ELSE @,
                              !.url = IF url # None
                                      THEN (IF url # <<>> THEN url ELSE None)
                                      ELSE @,
                              !.notes = EditedNotes(@, notes, tags) ]
                  IN  IF ~saved THEN Raise("Exception")
                      ELSE ReturnWith(_event_to_dict(n, event), WithItem(n, event), nextId)

\* delete_event without the ValueError of a missing event: the removal of
\* nothing fails like any other native error
delete_event_Unchecked(event_id, span, removed) ==
    IF require_calendar_permission THEN RaisePermissionError
    ELSE LET n == _find_event_by_any_id(event_id)
         IN  IF n = 0 \/ ~removed THEN Raise("Exception")
             ELSE ReturnWith(TRUE, WithoutItem(n), nextId)

delete_event(event_id, span, removed) ==
    IF require_calendar_permission THEN RaisePermissionError
    ELSE LET n == _find_event_by_any_id(event_id)
         IN  IF n = 0 THEN Raise("ValueError")
             ELSE IF ~removed THEN Raise("Exception")
             ELSE ReturnWith(TRUE, WithoutItem(n), nextId)

search_events(query, start, end, tags, limit) ==
    IF require_calendar_permission THEN RaisePermissionError
    ELSE LET from == IF start = None THEN PlusDays(Now, 0 - 30) ELSE start
             to == IF end = None THEN PlusDays(Now, 90) ELSE end
             events == get_events(from, to, None, 1000).ret
             Matches(event) ==
                 IsSubstring(Lower(query),
                             Lower(OrEmpty(event.title) \o <<" ">>
                                   \o OrEmpty(event.location) \o <<" ">>
                                   \o OrEmpty(event.notes)))
             results == SelectSeq(events, Matches)
         IN  Return(Take(IF TruthyList(tags) THEN filter_by_tags(results, tags)
                         ELSE results, limit))

get_reminder_lists ==
    IF require_reminders_permission THEN RaisePermissionError
    ELSE Return([i \in DOMAIN ReminderLists |-> _calendar_to_dict(ReminderLists[i])])

get_reminders(list_name, include_completed, due_before, limit, arrived) ==
    IF require_reminders_permission THEN RaisePermissionError
    ELSE LET cal == IF TruthyStr(list_name)
                    THEN _find_reminder_list_unlocked(list_name) ELSE None
             calendars == IF TruthyStr(list_name)
                          THEN (IF cal # None THEN <<cal>> ELSE <<>>)
                          ELSE ReminderLists
         IN  IF calendars = <<>> THEN Return(<<>>)
             ELSE LET matching == IF include_completed
                                  THEN remindersInCalendars(calendars)
                                  ELSE incompleteReminders(due_before, calendars)
                      reminders_result == IF arrived THEN matching ELSE {}
                      kept == Take(RemindersByDue(reminders_result), limit)
                  IN  Return([i \in 1..Len(kept) |->
                                _reminder_to_dict(kept[i], items[kept[i]])])

get_reminder_by_id(reminder_id, arrived) ==
    IF require_reminders_permission THEN RaisePermissionError
    ELSE LET item == calendarItemWithIdentifier_(reminder_id)
         IN  IF item # 0 /\ items[item].kind = "reminder"
             THEN Return(_reminder_to_dict(item, items[item]))
             ELSE LET byExt == _find_reminder_by_external_id(reminder_id, arrived)
                  IN  IF byExt # 0 THEN Return(_reminder_to_dict(byExt, items[byExt]))
                      ELSE ReturnNone

create_reminder(title, list_name, notes, due_date, priority, tags, saved) ==
    IF require_reminders_permission THEN RaisePermissionError
    ELSE LET cal == IF TruthyStr(list_name)
                    THEN _find_reminder_list_unlocked(list_name) ELSE None
             notes_with_attribution ==
                 IF TruthyStr(notes) THEN CREATED_BY_NOTE \o <<"\n", "\n">> \o notes
                 ELSE CREATED_BY_NOTE
             reminder == [ kind |-> "reminder",
                           title |-> title,
                           calendar |-> IF cal # None THEN cal
                                        ELSE defaultCalendarForNewReminders,
                           due |-> due_date,
                           priority |-> IF TruthyStr(priority)
                                        THEN PriorityValue(Lower(priority)) ELSE 0,
                           completed |-> FALSE,
                           completion_date |-> None,
                           notes |-> merge_notes_with_tags(notes_with_attribution, tags) ]
         IN  IF ~saved THEN Raise("Exception")
             ELSE ReturnWith(_reminder_to_dict(nextId, reminder),
                             WithItem(nextId, reminder), nextId + 1)

edit_reminder(reminder_id, title, notes, due_date, priority, completed, tags, arrived, saved) ==
    IF require_reminders_permission THEN RaisePermissionError
    ELSE LET n == _find_reminder_by_any_id(reminder_id, arrived)
         IN  IF n = 0 THEN Raise("ValueError")
             ELSE LET reminder ==
                          [ items[n] EXCEPT
                              !.title = IF title # None THEN title ELSE @,
                              !.due = IF due_date # None THEN due_date ELSE @,
                              !.priority = IF priority # None
                                           THEN PriorityValue(Lower(priority)) ELSE @,
                              !.completed = IF completed # None
                                            THEN completed = True ELSE @,
                              !.completion_date =
                                  IF completed = None THEN @
                                  ELSE IF completed = True THEN Now ELSE None,
                              !.notes = EditedNotes(@, notes, tags) ]
                  IN  IF ~saved THEN Raise("Exception")
                      ELSE ReturnWith(_reminder_to_dict(n, reminder),
                                      WithItem(n, reminder), nextId)

complete_reminder(reminder_id, arrived, saved) ==
    edit_reminder(reminder_id, None, None, None, None, True, NoneList, arrived, saved)

delete_reminder(reminder_id, arrived, removed) ==
    IF require_reminders_permission THEN RaisePermissionError
    ELSE LET n == _find_reminder_by_any_id(reminder_id, arrived)
         IN  IF n = 0 THEN Raise("ValueError")
             ELSE IF ~removed THEN Raise("Exception")
             ELSE ReturnWith(TRUE, WithoutItem(n), nextId)

search_reminders(query, tags, include_completed, limit, arrived) ==
    IF require_reminders_permission THEN RaisePermissionError
    ELSE LET reminders == get_reminders(None, include_completed, None, 1000, arrived).ret
             Matches(reminder) ==
                 IsSubstring(Lower(query),
                             Lower(OrEmpty(reminder.title) \o <<" ">>
                                   \o OrEmpty(reminder.notes)))
             results == SelectSeq(reminders, Matches)
         IN  Return(Take(IF TruthyList(tags) THEN filter_by_tags(results, tags)
                         ELSE results, limit))

---------------------------------------------------------------------------
(* calendar_tools.py, reminder_tools.py, server.py: the tools.  Each gives *)
(* the mapping it returns (resp) and the native store it leaves.  A date   *)
(* argument is a string; "" stands for an omitted (None or empty) one.     *)

\* a failure mapping returned ahead of the store call
Fail(kind, message) ==
    [ resp |-> [success |-> FALSE, error |-> kind, message |-> message],
      items |-> items, nextId |-> nextId, native |-> FALSE ]

\* the failure mapping of an except clause, r being what the store call raised
FailOf(r, kind, message) ==
    [ resp |-> [success |-> FALSE, error |-> kind, message |-> message],
      items |-> r.items, nextId |-> r.nextId, native |-> r.native ]

Succeed(r, mapping) ==
    [resp |-> mapping, items |-> r.items, nextId |-> r.nextId, native |-> r.native]

\* the date a tool hands to the store for an optional date argument
OptionalDate(s) == IF s = "" THEN None ELSE fromisoformat(s)

eventkit_check_permissions ==
    [resp |-> check_permissions, items |-> items, nextId |-> nextId, native |-> FALSE]

\* what calendar_list_calendars returns, given what the store call returned or raised
calendar_list_calendars_result(r) ==
    IF r.exc = "PermissionError" THEN FailOf(r, "permission_denied", "access")
    ELSE IF r.exc # "none" THEN FailOf(r, "unexpected_error", "error")
    ELSE Succeed(r, [success |-> TRUE, calendars |-> r.ret, count |-> Len(r.ret)])

calendar_list_calendars == calendar_list_calendars_result(get_calendars)

\* what calendar_list_events returns, given what the store call returned or raised
calendar_list_events_result(r) ==
    IF r.exc = "PermissionError" THEN FailOf(r, "permission_denied", "access")
    ELSE IF r.exc = "ValueError" THEN FailOf(r, "invalid_date", "Invalid date format")
    ELSE IF r.exc # "none" THEN FailOf(r, "unexpected_error", "error")
    ELSE Succeed(r, [success |-> TRUE, today |-> isoformat(Now),
                     events |-> r.ret, count |-> Len(r.ret)])

calendar_list_events(start_date, end_date, calendar_name, limit) ==
    IF IsoRaises(start_date) \/ IsoRaises(end_date)
    THEN Fail("invalid_date", "Invalid date format")
    ELSE calendar_list_events_result(
             get_events(fromisoformat(start_date), fromisoformat(end_date),
                        calendar_name, limit))

\* calendar_get_event handing out the event dict itself, without the envelope
calendar_get_event_result_Bare(r) ==
    IF r.exc = "PermissionError" THEN FailOf(r, "permission_denied", "access")
    ELSE IF r.exc # "none" THEN FailOf(r, "unexpected_error", "error")
    ELSE IF ~r.isNone THEN Succeed(r, r.ret)
    ELSE FailOf(r, "not_found", "Event not found")

\* what calendar_get_event returns, given what the store call returned or raised
calendar_get_event_result(r) ==
    IF r.exc = "PermissionError" THEN FailOf(r, "permission_denied", "access")
    ELSE IF r.exc # "none" THEN FailOf(r, "unexpected_error", "error")
    ELSE IF ~r.isNone THEN Succeed(r, [success |-> TRUE, event |-> r.ret])
    ELSE FailOf(r, "not_found", "Event not found")

calendar_get_event(event_id) == calendar_get_event_result(get_event_by_id(event_id))

\* what calendar_search_events returns, given what the store call returned or raised
calendar_search_events_result(r, query) ==
    IF r.exc = "PermissionError" THEN FailOf(r, "permission_denied", "access")
    ELSE IF r.exc = "ValueError" THEN FailOf(r, "invalid_date", "Invalid date format")
    ELSE IF r.exc # "none" THEN FailOf(r, "unexpected_error", "error")
    ELSE Succeed(r, [success |-> TRUE, events |-> r.ret,
                     count |-> Len(r.ret), query |-> query])

calendar_search_events(query, start_date, end_date, tags, limit) ==
    IF (start_date # "" /\ IsoRaises(start_date)) \/ (end_date # "" /\ IsoRaises(end_date))
    THEN Fail("invalid_date", "Invalid date format")
    ELSE calendar_search_events_result(
             search_events(query, OptionalDate(start_date), OptionalDate(end_date),
                           tags, limit),
             query)

\* what calendar_create_event returns, given what the store call returned or raised
calendar_create_event_result(r) ==
    IF r.exc = "PermissionError" THEN FailOf(r, "permission_denied", "access")
    ELSE IF r.exc = "ValueError" THEN FailOf(r, "invalid_input", "error")
    ELSE IF r.exc # "none" THEN FailOf(r, "unexpected_error", "Failed to save event")
    ELSE Succeed(r, [success |-> TRUE, event |-> r.ret,
                     message |-> "Event created successfully"])

calendar_create_event(title, start_date, end_date, calendar_name, location, notes, url, is_all_day, tags, saved) ==
    IF IsoRaises(start_date) \/ IsoRaises(end_date)
    THEN Fail("invalid_input", "Invalid isoformat string")
    ELSE calendar_create_event_result(
             create_event(title, fromisoformat(start_date), fromisoformat(end_date),
                          calendar_name, location, notes, url, is_all_day, tags, saved))

\* what calendar_edit_event returns, given what the store call returned or raised
calendar_edit_event_result(r) ==
    IF r.exc = "PermissionError" THEN FailOf(r, "permission_denied", "access")
    ELSE IF r.exc = "ValueError" THEN FailOf(r, "not_found", "Event not found")
    ELSE IF r.exc # "none" THEN FailOf(r, "unexpected_error", "Failed to update event")
    ELSE Succeed(r, [success |-> TRUE, event |-> r.ret,
                     message |-> "Event updated successfully"])

\* calendar_edit_event asking for the permission before it looks at its arguments
calendar_edit_event_GateFirst(event_id, span, title, start_date, end_date, location, notes, url, tags, saved) ==
    IF require_calendar_permission THEN Fail("permission_denied", "access")
    ELSE IF span \notin {"this_event", "future_events"}
    THEN Fail("invalid_span", "span must be 'this_event' or 'future_events'")
    ELSE IF (start_date # "" /\ IsoRaises(start_date))
            \/ (end_date # "" /\ IsoRaises(end_date))
    THEN Fail("not_found", "Invalid isoformat string")
    ELSE calendar_edit_event_result(
             edit_event(event_id, span, title, OptionalDate(start_date),
                        OptionalDate(end_date), location, notes, url, tags, saved))

calendar_edit_event(event_id, span, title, start_date, end_date, location, notes, url, tags, saved) ==
    IF span \notin {"this_event", "future_events"}
    THEN Fail("invalid_span", "span must be 'this_event' or 'future_events'")
    ELSE IF (start_date # "" /\ IsoRaises(start_date))
            \/ (end_date # "" /\ IsoRaises(end_date))
    THEN Fail("not_found", "Invalid isoformat string")
    ELSE calendar_edit_event_result(
             edit_event(event_id, span, title, OptionalDate(start_date),
                        OptionalDate(end_date), location, notes, url, tags, saved))

\* what calendar_delete_event returns, given what the store call returned or raised
calendar_delete_event_result(r) ==
    IF r.exc = "PermissionError" THEN FailOf(r, "permission_denied", "access")
    ELSE IF r.exc = "ValueError" THEN FailOf(r, "not_found", "Event not found")
    ELSE IF r.exc # "none" THEN FailOf(r, "unexpected_error", "Failed to delete event")
    ELSE Succeed(r, [success |-> TRUE, message |-> "Event deleted successfully"])

\* calendar_delete_event naming the span error by a kind of its own
calendar_delete_event_SpanKind(event_id, span, removed) ==
    IF span \notin {"this_event", "future_events"}
    THEN Fail("invalid_argument", "span must be 'this_event' or 'future_events'")
    ELSE calendar_delete_event_result(delete_event(event_id, span, removed))

\* calendar_delete_event looking at the span after the store call
calendar_delete_event_LateSpan(event_id, span, removed) ==
    IF span \notin {"this_event", "future_events"}
    THEN FailOf(delete_event(event_id, span, removed), "invalid_span",
                "span must be 'this_event' or 'future_events'")
    ELSE calendar_delete_event_result(delete_event(event_id, span, removed))

calendar_delete_event(event_id, span, removed) ==
    IF span \notin {"this_event", "future_events"}
    THEN Fail("invalid_span", "span must be 'this_event' or 'future_events'")
    ELSE calendar_delete_event_result(delete_event(event_id, span, removed))

\* what reminders_list_lists returns, given what the store call returned or raised
reminders_list_lists_result(r) ==
    IF r.exc = "PermissionError" THEN FailOf(r, "permission_denied", "access")
    ELSE IF r.exc # "none" THEN FailOf(r, "unexpected_error", "error")
    ELSE Succeed(r, [success |-> TRUE, lists |-> r.ret, count |-> Len(r.ret)])

reminders_list_lists == reminders_list_lists_result(get_reminder_lists)

\* what reminders_list returns, given what the store call returned or raised
reminders_list_result(r) ==
    IF r.exc = "PermissionError" THEN FailOf(r, "permission_denied", "access")
    ELSE IF r.exc = "ValueError" THEN FailOf(r, "invalid_date", "Invalid date format")
    ELSE IF r.exc # "none" THEN FailOf(r, "unexpected_error", "error")
    ELSE Succeed(r, [success |-> TRUE, reminders |-> r.ret, count |-> Len(r.ret)])

reminders_list(list_name, include_completed, due_before, limit, arrived) ==
    IF due_before # "" /\ IsoRaises(due_before)
    THEN Fail("invalid_date", "Invalid date format")
    ELSE reminders_list_result(
             get_reminders(list_name, include_completed, OptionalDate(due_before),
                           limit, arrived))

\* what reminders_get returns, given what the store call returned or raised
reminders_get_result(r) ==
    IF r.exc = "PermissionError" THEN FailOf(r, "permission_denied", "access")
    ELSE IF r.exc # "none" THEN FailOf(r, "unexpected_error", "error")
    ELSE IF ~r.isNone THEN Succeed(r, [success |-> TRUE, reminder |-> r.ret])
    ELSE FailOf(r, "not_found", "Reminder not found")

reminders_get(reminder_id, arrived) ==
    reminders_get_result(get_reminder_by_id(reminder_id, arrived))

\* what reminders_search returns, given what the store call returned or raised
reminders_search_result(r, query) ==
    IF r.exc = "PermissionError" THEN FailOf(r, "permission_denied", "access")
    ELSE IF r.exc # "none" THEN FailOf(r, "unexpected_error", "error")
    ELSE Succeed(r, [success |-> TRUE, reminders |-> r.ret,
                     count |-> Len(r.ret), query |-> query])

reminders_search(query, tags, include_completed, limit, arrived) ==
    reminders_search_result(
        search_reminders(query, tags, include_completed, limit, arrived), query)

\* the priority names the reminder tools accept
PriorityNames == { <<"n","o","n","e">>, <<"l","o","w">>,
                   <<"m","e","d","i","u","m">>, <<"h","i","g","h">> }

\* what reminders_create returns, given what the store call returned or raised
reminders_create_result(r) ==
    IF r.exc = "PermissionError" THEN FailOf(r, "permission_denied", "access")
    ELSE IF r.exc = "ValueError" THEN FailOf(r, "invalid_input", "error")
    ELSE IF r.exc # "none" THEN FailOf(r, "unexpected_error", "Failed to save reminder")
    ELSE Succeed(r, [success |-> TRUE, reminder |-> r.ret,
                     message |-> "Reminder created successfully"])

reminders_create(title, list_name, notes, due_date, priority, tags, saved) ==
    IF due_date # "" /\ IsoRaises(due_date)
    THEN Fail("invalid_input", "Invalid isoformat string")
    ELSE IF TruthyStr(priority) /\ priority \notin PriorityNames
    THEN Fail("invalid_priority", "priority must be 'none', 'low', 'medium', or 'high'")
    ELSE reminders_create_result(
             create_reminder(title, list_name, notes, OptionalDate(due_date),
                             priority, tags, saved))

\* what reminders_edit returns, given what the store call returned or raised
reminders_edit_result(r) ==
    IF r.exc = "PermissionError" THEN FailOf(r, "permission_denied", "access")
    ELSE IF r.exc = "ValueError" THEN FailOf(r, "not_found", "Reminder not found")
    ELSE IF r.exc # "none" THEN FailOf(r, "unexpected_error", "Failed to update reminder")
    ELSE Succeed(r, [success |-> TRUE, reminder |-> r.ret,
                     message |-> "Reminder updated successfully"])

reminders_edit(reminder_id, title, notes, due_date, priority, completed, tags, arrived, saved) ==
    IF due_date # "" /\ IsoRaises(due_date)
    THEN Fail("not_found", "Invalid isoformat string")
    ELSE IF TruthyStr(priority) /\ priority \notin PriorityNames
    THEN Fail("invalid_priority", "priority must be 'none', 'low', 'medium', or 'high'")
    ELSE reminders_edit_result(
             edit_reminder(reminder_id, title, notes, OptionalDate(due_date),
                           priority, completed, tags, arrived, saved))

\* what reminders_complete returns, given what the store call returned or raised
reminders_complete_result(r) ==
    IF r.exc = "PermissionError" THEN FailOf(r, "permission_denied", "access")
    ELSE IF r.exc = "ValueError" THEN FailOf(r, "not_found", "Reminder not found")
    ELSE IF r.exc # "none" THEN FailOf(r, "unexpected_error", "Failed to update reminder")
    ELSE Succeed(r, [success |-> TRUE, reminder |-> r.ret,
                     message |-> "Reminder marked as completed"])

reminders_complete(reminder_id, arrived, saved) ==
    reminders_complete_result(complete_reminder(reminder_id, arrived, saved))

\* what reminders_delete returns, given what the store call returned or raised
reminders_delete_result(r) ==
    IF r.exc = "PermissionError" THEN FailOf(r, "permission_denied", "access")
    ELSE IF r.exc = "ValueError" THEN FailOf(r, "not_found", "Reminder not found")
    ELSE IF r.exc # "none" THEN FailOf(r, "unexpected_error", "Failed to delete reminder")
    ELSE Succeed(r, [success |-> TRUE, message |-> "Reminder deleted successfully"])

reminders_delete(reminder_id, arrived, removed) ==
    reminders_delete_result(delete_reminder(reminder_id, arrived, removed))

---------------------------------------------------------------------------
(* One action per tool: the call is answered in one step, which leaves the *)
(* call, the mapping returned and the native store after it.               *)

Threads == 1..MaxThreads

\* no thread is in a tool call, the lock is free
ThreadsIdle ==
    /\ lock = 0
    /\ pc = [t \in Threads |-> "idle"]
    /\ job = [t \in Threads |-> "none"]
    /\ fetch = [t \in Threads |-> "none"]

\* the setup script is not running; no client holds a grant
SetupIdle ==
    /\ ledger = [c \in Range(Clients) |-> [s \in Services |-> "absent"]]
    /\ stage = "idle"
    /\ cursor = 1
    /\ granted = <<>>
    /\ log = <<>>

\* the tool returns out: the mapping and the native store it leaves
Respond(tool, args, out) ==
    /\ call' = [tool |-> tool, args |-> args]
    /\ resp' = out.resp
    /\ items' = out.items
    /\ nextId' = out.nextId
    /\ native' = out.native
    /\ UNCHANGED authStatus
    /\ UNCHANGED codecVars
    /\ UNCHANGED setupVars

\* a tool call answered with no other call under way
Answer(tool, args, out) ==
    /\ Respond(tool, args, out)
    /\ UNCHANGED threadVars

EventkitCheckPermissions ==
    Answer("eventkit_check_permissions", <<>>, eventkit_check_permissions)

CalendarListCalendars ==
    Answer("calendar_list_calendars", <<>>, calendar_list_calendars)

CalendarListEvents(start_date, end_date, calendar_name, limit) ==
    Answer("calendar_list_events",
           [start_date |-> start_date, end_date |-> end_date,
            calendar_name |-> calendar_name, limit |-> limit],
           calendar_list_events(start_date, end_date, calendar_name, limit))

CalendarGetEvent(event_id) ==
    Answer("calendar_get_event", [event_id |-> event_id], calendar_get_event(event_id))

CalendarSearchEvents(query, start_date, end_date, tags, limit) ==
    Answer("calendar_search_events",
           [query |-> query, start_date |-> start_date, end_date |-> end_date,
            tags |-> tags, limit |-> limit],
           calendar_search_events(query, start_date, end_date, tags, limit))

CalendarCreateEvent(title, start_date, end_date, calendar_name, location, notes, url, is_all_day, tags, saved) ==
    /\ nextId <= MaxItems
    /\ Answer("calendar_create_event",
              [title |-> title, start_date |-> start_date, end_date |-> end_date,
               calendar_name |-> calendar_name, location |-> location,
               notes |-> notes, url |-> url, is_all_day |-> is_all_day,
               tags |-> tags],
              calendar_create_event(title, start_date, end_date, calendar_name,
                                    location, notes, url, is_all_day, tags, saved))

CalendarEditEvent(event_id, span, title, start_date, end_date, location, notes, url, tags, saved) ==
    Answer("calendar_edit_event",
           [event_id |-> event_id, span |-> span, title |-> title,
            start_date |-> start_date, end_date |-> end_date,
            location |-> location, notes |-> notes, url |-> url, tags |-> tags],
           calendar_edit_event(event_id, span, title, start_date, end_date,
                               location, notes, url, tags, saved))

CalendarDeleteEvent(event_id, span, removed) ==
    Answer("calendar_delete_event", [event_id |-> event_id, span |-> span],
           calendar_delete_event(event_id, span, removed))

RemindersListLists ==
    Answer("reminders_list_lists", <<>>, reminders_list_lists)

RemindersList(list_name, include_completed, due_before, limit, arrived) ==
    Answer("reminders_list",
           [list_name |-> list_name, include_completed |-> include_completed,
            due_before |-> due_before, limit |-> limit],
           reminders_list(list_name, include_completed, due_before, limit, arrived))

RemindersGet(reminder_id, arrived) ==
    Answer("reminders_get", [reminder_id |-> reminder_id],
           reminders_get(reminder_id, arrived))

RemindersSearch(query, tags, include_completed, limit, arrived) ==
    Answer("reminders_search",
           [query |-> query, tags |-> tags,
            include_completed |-> include_completed, limit |-> limit],
           reminders_search(query, tags, include_completed, limit, arrived))

RemindersCreate(title, list_name, notes, due_date, priority, tags, saved) ==
    /\ nextId <= MaxItems
    /\ Answer("reminders_create",
              [title |-> title, list_name |-> list_name, notes |-> notes,
               due_date |-> due_date, priority |-> priority, tags |-> tags],
              reminders_create(title, list_name, notes, due_date, priority, tags,
                               saved))

RemindersEdit(reminder_id, title, notes, due_date, priority, completed, tags, arrived, saved) ==
    Answer("reminders_edit",
           [reminder_id |-> reminder_id, title |-> title, notes |-> notes,
            due_date |-> due_date, priority |-> priority,
            completed |-> completed, tags |-> tags],
           reminders_edit(reminder_id, title, notes, due_date, priority, completed,
                          tags, arrived, saved))

RemindersComplete(reminder_id, arrived, saved) ==
    Answer("reminders_complete", [reminder_id |-> reminder_id],
           reminders_complete(reminder_id, arrived, saved))

RemindersDelete(reminder_id, arrived, removed) ==
    Answer("reminders_delete", [reminder_id |-> reminder_id],
           reminders_delete(reminder_id, arrived, removed))

CodecIdle ==
    /\ tagNotes = None
    /\ tagList = NoneList
    /\ tagStage = "idle"
    /\ tagMerged = None
    /\ tagDecoded = << None, <<>> >>

\* the identifiers a caller can pass: those of the items the store can hold,
\* and one that names nothing
IdArgs == {InternalId(n) : n \in 0..MaxItems} \cup {ExternalId(n) : n \in 1..MaxItems}

---------------------------------------------------------------------------
(* Tool runs: every tool of the server, called with valid and invalid      *)
(* arguments under every authorization status of the events category.      *)

TitleM == <<"m">>
Urgent == <<"u","r","g","e","n","t">>
High == <<"h","i","g","h">>

InitTools ==
    /\ authStatus \in [Categories -> Statuses]
    /\ authStatus["reminder"] \in {"authorized", "denied"}
    /\ items = <<>>
    /\ nextId = 1
    /\ call = [tool |-> "none"]
    /\ resp = <<>>
    /\ native = FALSE
    /\ ThreadsIdle
    /\ SetupIdle
    /\ CodecIdle

\* span, start_date of an edit_event call
EditEventArgs == { <<"this_event", "">>, <<"future_events", "2025-03-03">>,
                   <<"this_event", "tomorrow">>, <<"all", "">> }

\* due_date, priority, completed of an edit_reminder call
EditReminderArgs == { <<"", None, None>>, <<"2025-03-03", High, None>>,
                      <<"tomorrow", None, None>>, <<"", Urgent, None>>,
                      <<"", None, False>> }

NextTools ==
    \/ EventkitCheckPermissions
    \/ CalendarListCalendars
    \/ \E start_date \in {"2025-03-01T09:00:00", "tomorrow"} :
          CalendarListEvents(start_date, "2025-09-01T09:00:00", None, 50)
    \/ \E event_id \in IdArgs : CalendarGetEvent(event_id)
    \/ \E end_date \in {"", "03/01/2025"} :
          CalendarSearchEvents(TitleM, "", end_date, NoneList, 50)
    \/ \E start_date \in {"2025-03-01T09:00:00", "tomorrow"}, saved \in BOOLEAN :
          CalendarCreateEvent(TitleM, start_date, "2025-03-02T09:00:00Z", None, None,
                              None, None, FALSE, NoneList, saved)
    \/ \E event_id \in IdArgs, a \in EditEventArgs, saved \in BOOLEAN :
          CalendarEditEvent(event_id, a[1], None, a[2], "", None, None, None,
                            NoneList, saved)
    \/ \E event_id \in IdArgs, span \in {"this_event", "all"}, removed \in BOOLEAN :
          CalendarDeleteEvent(event_id, span, removed)
    \/ RemindersListLists
    \/ \E due_before \in {"", "tomorrow"}, arrived \in BOOLEAN :
          RemindersList(None, FALSE, due_before, 100, arrived)
    \/ \E reminder_id \in IdArgs, arrived \in BOOLEAN : RemindersGet(reminder_id, arrived)
    \/ \E arrived \in BOOLEAN : RemindersSearch(TitleM, NoneList, FALSE, 50, arrived)
    \/ \E due_date \in {"", "tomorrow"}, priority \in {None, Urgent}, saved \in BOOLEAN :
          RemindersCreate(TitleM, None, None, due_date, priority, NoneList, saved)
    \/ \E reminder_id \in IdArgs, a \in EditReminderArgs, saved \in BOOLEAN :
          RemindersEdit(reminder_id, None, None, a[1], a[2], a[3], NoneList, TRUE, saved)
    \/ \E reminder_id \in IdArgs, saved \in BOOLEAN :
          RemindersComplete(reminder_id, TRUE, saved)
    \/ \E reminder_id \in IdArgs, arrived \in BOOLEAN, removed \in BOOLEAN :
          RemindersDelete(reminder_id, arrived, removed)

SpecTools == InitTools /\ [][NextTools]_vars

---------------------------------------------------------------------------
(* Notes runs: both categories authorized, the native store answering every *)
(* save and fetch; items are created, edited, read and searched with notes  *)
(* and tags of every shape the codec treats differently.                    *)

TagA == << <<"a">> >>
TagB == << <<"b">> >>
Day1 == "2025-03-01T09:00:00"
Day2 == "2025-03-02T09:00:00Z"

\* notes arguments of a create: omitted, "x ", "x" and a line "#b"
CreateNotes == { None, <<"x", " ">>, <<"x", "\n", "#", "b">> }

\* title, notes, tags of an edit: tags only (a list, the empty list), notes
\* and tags, notes only, title only
EditProfiles ==
    { <<None, None, TagA>>,
      <<None, None, <<>>>>,
      <<None, <<" ", "#", "a">>, TagB>>,
      <<None, <<" ", "#", "a", "\n", "#", "b">>, NoneList>>,
      <<<<"m", "2">>, None, NoneList>> }

InitNotes ==
    /\ authStatus = [c \in Categories |-> "authorized"]
    /\ items = <<>>
    /\ nextId = 1
    /\ call = [tool |-> "none"]
    /\ resp = <<>>
    /\ native = FALSE
    /\ ThreadsIdle
    /\ SetupIdle
    /\ CodecIdle

NextNotes ==
    \/ \E notes \in CreateNotes, tags \in {NoneList, TagA} :
          CalendarCreateEvent(TitleM, Day1, Day2, None, None, notes, None, FALSE,
                              tags, TRUE)
    \/ \E n \in 1..MaxItems, e \in EditProfiles :
          CalendarEditEvent(InternalId(n), "this_event", e[1], "", "", None, e[2],
                            None, e[3], TRUE)
    \/ \E n \in 1..MaxItems : CalendarGetEvent(ExternalId(n))
    \/ CalendarListEvents(Day1, "2025-09-01T09:00:00", None, 50)
    \/ \E tags \in {NoneList, TagA} : CalendarSearchEvents(TitleM, "", "", tags, 50)
    \/ \E notes \in CreateNotes, tags \in {NoneList, TagA} :
          RemindersCreate(TitleM, None, notes, "", None, tags, TRUE)
    \/ \E n \in 1..MaxItems, e \in EditProfiles :
          RemindersEdit(InternalId(n), e[1], e[2], "", None, None, e[3], TRUE, TRUE)
    \/ \E n \in 1..MaxItems : RemindersGet(ExternalId(n), TRUE)
    \/ RemindersList(None, FALSE, "", 100, TRUE)
    \/ \E tags \in {NoneList, TagA} : RemindersSearch(TitleM, tags, FALSE, 50, TRUE)

SpecNotes == InitNotes /\ [][NextNotes]_vars

---------------------------------------------------------------------------
(* Gate runs: the server starts (main requests the permissions it can      *)
(* request), then answers tool calls; the user can change either           *)
(* authorization in the system settings at any time.  An item is created   *)
(* in an empty store.                                                      *)

InitGate ==
    /\ authStatus \in [Categories -> Statuses]
    /\ items = <<>>
    /\ nextId = 1
    /\ call = [tool |-> "none"]
    /\ resp = <<>>
    /\ native = FALSE
    /\ ThreadsIdle
    /\ SetupIdle
    /\ CodecIdle

\* main, request_all_permissions: both statuses are read, then the request
\* for the events category is made; requested holds the categories a consent
\* request was issued for
RequestCalendarAccess(outcome) ==
    /\ call.tool = "none"
    /\ authStatus' = IF check_calendar_permission.can_request
                     THEN request_calendar_access(outcome) ELSE authStatus
    /\ call' = [ tool |-> "request_calendar_access",
                 reminders |-> check_reminders_permission,
                 requested |-> IF check_calendar_permission.can_request
                               THEN {"event"} ELSE {} ]
    /\ UNCHANGED <<items, nextId, resp, native>>
    /\ UNCHANGED threadVars
    /\ UNCHANGED codecVars
    /\ UNCHANGED setupVars

\* main, request_all_permissions: the request for the reminders category,
\* after which the server runs
RequestRemindersAccess(outcome) ==
    /\ call.tool = "request_calendar_access"
    /\ authStatus' = IF call.reminders.can_request
                     THEN request_reminders_access(outcome) ELSE authStatus
    /\ call' = [ tool |-> "request_reminders_access",
                 requested |-> IF call.reminders.can_request
                               THEN call.requested \cup {"reminder"}
                               ELSE call.requested ]
    /\ UNCHANGED <<items, nextId, resp, native>>
    /\ UNCHANGED threadVars
    /\ UNCHANGED codecVars
    /\ UNCHANGED setupVars

\* mcp.run: the server answers tool calls once main has made its requests
Running == call.tool \notin {"none", "request_calendar_access"}

\* the status authorizationStatusForEntityType_ reports changes
AuthorizationChanges(category, status) ==
    /\ Running
    /\ authStatus[category] # status
    /\ authStatus' = [authStatus EXCEPT ![category] = status]
    /\ UNCHANGED <<items, nextId, call, resp, native>>
    /\ UNCHANGED threadVars
    /\ UNCHANGED codecVars
    /\ UNCHANGED setupVars

NextGate ==
    \/ \E outcome \in RequestOutcomes : RequestCalendarAccess(outcome)
    \/ \E outcome \in RequestOutcomes : RequestRemindersAccess(outcome)
    \/ \E category \in Categories, status \in Statuses :
          AuthorizationChanges(category, status)
    \/ Running /\ EventkitCheckPermissions
    \/ Running /\ CalendarListCalendars
    \/ Running /\ CalendarListEvents("2025-03-01T09:00:00", "2025-09-01T09:00:00", None, 50)
    \/ Running /\ \E event_id \in IdArgs : CalendarGetEvent(event_id)
    \/ Running /\ CalendarSearchEvents(TitleM, "", "", NoneList, 50)
    \/ Running /\ ItemIds = {} /\ \E start_date \in {"2025-03-01T09:00:00", "tomorrow"} :
          CalendarCreateEvent(TitleM, start_date, "2025-03-02T09:00:00Z", None, None,
                              None, None, FALSE, NoneList, TRUE)
    \/ Running /\ \E event_id \in IdArgs, span \in {"this_event", "all"} :
          CalendarEditEvent(event_id, span, <<"m", "2">>, "", "", None, None, None,
                            NoneList, TRUE)
    \/ Running /\ \E event_id \in IdArgs : CalendarDeleteEvent(event_id, "future_events", TRUE)
    \/ Running /\ RemindersListLists
    \/ Running /\ \E arrived \in BOOLEAN : RemindersList(None, FALSE, "", 100, arrived)
    \/ Running /\ \E reminder_id \in IdArgs : RemindersGet(reminder_id, TRUE)
    \/ Running /\ RemindersSearch(TitleM, NoneList, FALSE, 50, TRUE)
    \/ Running /\ ItemIds = {} /\ \E priority \in {None, High, Urgent} :
          RemindersCreate(TitleM, None, None, "", priority, NoneList, TRUE)
    \/ Running /\ \E reminder_id \in IdArgs :
          RemindersEdit(reminder_id, <<"m", "2">>, None, "", None, None, NoneList, TRUE, TRUE)
    \/ Running /\ \E reminder_id \in IdArgs : RemindersComplete(reminder_id, TRUE, TRUE)
    \/ Running /\ \E reminder_id \in IdArgs : RemindersDelete(reminder_id, TRUE, TRUE)

SpecGate == InitGate /\ [][NextGate]_vars

---------------------------------------------------------------------------
(* Concurrent runs: each thread answers one tool call at a time.  A call   *)
(* passes the permission check of its store operation, takes the store's   *)
(* lock, runs the locked section and releases the lock on the way out.     *)
(* get_reminders issues the native fetch inside its section and waits for  *)
(* the completion callback, for 30 s at most.                              *)

\* the tools the threads run
LockTools == {"calendar_list_events", "reminders_create", "reminders_list"}

\* the arguments each of them is called with
JobArgs(tool) ==
    CASE tool = "calendar_list_events" ->
            [start_date |-> Day1, end_date |-> "2025-09-01T09:00:00",
             calendar_name |-> None, limit |-> 50]
      [] tool = "reminders_create" ->
            [title |-> TitleM, list_name |-> None, notes |-> None,
             due_date |-> "", priority |-> None, tags |-> NoneList]
      [] tool = "reminders_list" ->
            [list_name |-> None, include_completed |-> FALSE,
             due_before |-> "", limit |-> 100]
      [] tool = "calendar_search_events" ->
            [query |-> TitleM, start_date |-> "", end_date |-> "",
             tags |-> NoneList, limit |-> 50]
      [] tool = "reminders_complete" ->
            [reminder_id |-> InternalId(1)]

\* what the tool returns on the native store as it is now; arrived: the fetch
\* completion came before reminders_result was read
JobResult(tool, arrived) ==
    CASE tool = "calendar_list_events" ->
            calendar_list_events(Day1, "2025-09-01T09:00:00", None, 50)
      [] tool = "reminders_create" ->
            reminders_create(TitleM, None, None, "", None, NoneList, TRUE)
      [] tool = "reminders_list" ->
            reminders_list(None, FALSE, "", 100, arrived)
      [] tool = "calendar_search_events" ->
            calendar_search_events(TitleM, "", "", NoneList, 50)
      [] tool = "reminders_complete" ->
            reminders_complete(InternalId(1), arrived, TRUE)

\* what the tool returns when the native store rejects the save
JobUnsaved(tool) ==
    CASE tool = "reminders_create" ->
            reminders_create(TitleM, None, None, "", None, NoneList, FALSE)
      [] tool = "reminders_complete" ->
            reminders_complete(InternalId(1), TRUE, FALSE)

\* the require_*_permission call of the tool's store operation raises
JobRefused(tool) ==
    IF tool \in {"calendar_list_events", "calendar_search_events", "calendar_edit_event"}
    THEN require_calendar_permission
    ELSE require_reminders_permission

\* creates under way
Creating == {u \in Threads : pc[u] # "idle" /\ job[u] = "reminders_create"}

\* the tool is called on thread t: its store operation checks the permission
Call(t, tool) ==
    /\ pc[t] = "idle"
    /\ tool = "reminders_create" => nextId + Cardinality(Creating) <= MaxItems
    /\ job' = [job EXCEPT ![t] = tool]
    /\ IF JobRefused(tool)
       THEN /\ Respond(tool, JobArgs(tool), JobResult(tool, FALSE))
            /\ UNCHANGED <<lock, pc, fetch>>
       ELSE /\ pc' = [pc EXCEPT ![t] = "acquire"]
            /\ UNCHANGED <<lock, fetch>>
            /\ UNCHANGED storeVars
            /\ UNCHANGED codecVars
            /\ UNCHANGED setupVars

\* entering the section without waiting for the lock
Acquire_Unlocked(t) ==
    /\ pc[t] = "acquire"
    /\ lock' = t
    /\ pc' = [pc EXCEPT ![t] = "locked"]
    /\ UNCHANGED <<job, fetch>>
    /\ UNCHANGED storeVars
    /\ UNCHANGED codecVars
    /\ UNCHANGED setupVars

\* with self._lock: entered once the lock is free
Acquire(t) ==
    /\ pc[t] = "acquire"
    /\ lock = 0
    /\ lock' = t
    /\ pc' = [pc EXCEPT ![t] = "locked"]
    /\ UNCHANGED <<job, fetch>>
    /\ UNCHANGED storeVars
    /\ UNCHANGED codecVars
    /\ UNCHANGED setupVars

\* the locked section of get_events and create_reminder, and the return
Section(t) ==
    /\ pc[t] = "locked"
    /\ job[t] # "reminders_list"
    /\ Respond(job[t], JobArgs(job[t]), JobResult(job[t], FALSE))
    /\ lock' = 0
    /\ pc' = [pc EXCEPT ![t] = "idle"]
    /\ UNCHANGED <<job, fetch>>

\* get_reminders: fetchRemindersMatchingPredicate_completion_ is issued
Fetch(t) ==
    /\ pc[t] = "locked"
    /\ job[t] = "reminders_list"
    /\ fetch' = [fetch EXCEPT ![t] = "pending"]
    /\ pc' = [pc EXCEPT ![t] = "wait"]
    /\ UNCHANGED <<lock, job>>
    /\ UNCHANGED storeVars
    /\ UNCHANGED codecVars
    /\ UNCHANGED setupVars

\* fetch_callback runs on the native store's thread: it sets reminders_result
\* and releases the semaphore
fetch_callback(t) ==
    /\ fetch[t] = "pending"
    /\ fetch' = [fetch EXCEPT ![t] = "arrived"]
    /\ UNCHANGED <<lock, pc, job>>
    /\ UNCHANGED storeVars
    /\ UNCHANGED codecVars
    /\ UNCHANGED setupVars

\* semaphore.acquire(timeout=30) returns with the semaphore
Acquired(t) ==
    /\ pc[t] = "wait"
    /\ fetch[t] = "arrived"
    /\ pc' = [pc EXCEPT ![t] = "read"]
    /\ UNCHANGED <<lock, job, fetch>>
    /\ UNCHANGED storeVars
    /\ UNCHANGED codecVars
    /\ UNCHANGED setupVars

\* semaphore.acquire(timeout=30) returns without it: the wait has expired
Timeout(t) ==
    /\ pc[t] = "wait"
    /\ fetch[t] = "pending"
    /\ pc' = [pc EXCEPT ![t] = "expired"]
    /\ UNCHANGED <<lock, job, fetch>>
    /\ UNCHANGED storeVars
    /\ UNCHANGED codecVars
    /\ UNCHANGED setupVars

\* get_reminders fetching again once the wait has expired
Read_Retrying(t) ==
    /\ pc[t] \in {"read", "expired"}
    /\ IF pc[t] = "expired" /\ fetch[t] = "pending"
       THEN /\ pc' = [pc EXCEPT ![t] = "wait"]
            /\ UNCHANGED <<lock, job, fetch>>
            /\ UNCHANGED storeVars
            /\ UNCHANGED codecVars
            /\ UNCHANGED setupVars
       ELSE /\ Respond("reminders_list", JobArgs("reminders_list"), JobResult("reminders_list", fetch[t] = "arrived"))
            /\ lock' = 0
            /\ pc' = [pc EXCEPT ![t] = "idle"]
            /\ fetch' = [fetch EXCEPT ![t] = "none"]
            /\ UNCHANGED job

\* get_reminders reads reminders_result, sorts, cuts and returns, which
\* releases the lock; the native fetch is not cancelled, so a completion that
\* has not come yet is still to come ("late")
Read(t) ==
    /\ pc[t] \in {"read", "expired"}
    /\ Respond("reminders_list", JobArgs("reminders_list"), JobResult("reminders_list", fetch[t] = "arrived"))
    /\ lock' = 0
    /\ pc' = [pc EXCEPT ![t] = "idle"]
    /\ fetch' = [fetch EXCEPT ![t] = IF @ = "pending" THEN "late" ELSE "none"]
    /\ UNCHANGED job

\* fetch_callback of a get_reminders that has returned: it runs on the native
\* store's thread, copies the native reminders into the reminders_result of
\* the finished call and releases a semaphore nobody waits on
late_callback(t) ==
    /\ fetch[t] = "late"
    /\ fetch' = [fetch EXCEPT ![t] = "none"]
    /\ UNCHANGED <<lock, pc, job>>
    /\ UNCHANGED storeVars
    /\ UNCHANGED codecVars
    /\ UNCHANGED setupVars

InitLock ==
    /\ authStatus \in [Categories -> {"authorized", "denied"}]
    /\ authStatus["reminder"] = "authorized"
    /\ items = <<>>
    /\ nextId = 1
    /\ call = [tool |-> "none"]
    /\ resp = <<>>
    /\ native = FALSE
    /\ ThreadsIdle
    /\ SetupIdle
    /\ CodecIdle

NextLock ==
    \/ \E t \in Threads, tool \in LockTools : Call(t, tool)
    \/ \E t \in Threads : Acquire(t)
    \/ \E t \in Threads : Section(t)
    \/ \E t \in Threads : Fetch(t)
    \/ \E t \in Threads : fetch_callback(t)
    \/ \E t \in Threads : Acquired(t)
    \/ \E t \in Threads : Timeout(t)
    \/ \E t \in Threads : Read(t)
    \/ \E t \in Threads : late_callback(t)

SpecLock == InitLock /\ [][NextLock]_vars

\* thread t leaves its locked section: the step Section(t) or Read(t), told by
\* where it takes the thread
Leaves(t) ==
    /\ pc[t] \in {"locked", "read", "expired"}
    /\ pc[t] = "locked" => job[t] # "reminders_list"
    /\ pc' = [pc EXCEPT ![t] = "idle"]

\* a running thread goes on, and the wait on the semaphore ends with the
\* semaphore or with the timeout; a thread blocked on the lock gets it if the
\* lock keeps coming free; the completion callback may never come
FairLock ==
    \A t \in Threads :
        /\ SF_vars(Acquire(t))
        /\ WF_vars(Fetch(t))
        /\ WF_vars(Acquired(t))
        /\ WF_vars(Timeout(t))
        /\ WF_pc(Leaves(t))

SpecLockFair == SpecLock /\ FairLock

---------------------------------------------------------------------------
(* Nested runs: beside a create, the threads run store operations that     *)
(* call another store operation (search_events calls get_events,           *)
(* complete_reminder calls edit_reminder), and the native store can reject *)
(* a save.                                                                 *)

\* the tools whose store operation calls another one, which takes the lock
NestedTools == {"calendar_search_events", "reminders_complete"}

\* the tool is called on thread t: the outer store operation starts;
\* search_events checks the permission itself, complete_reminder leaves that
\* to edit_reminder
CallNested(t, tool) ==
    /\ pc[t] = "idle"
    /\ job' = [job EXCEPT ![t] = tool]
    /\ IF tool = "calendar_search_events" /\ JobRefused(tool)
       THEN /\ Respond(tool, JobArgs(tool), JobResult(tool, FALSE))
            /\ UNCHANGED <<lock, pc, fetch>>
       ELSE /\ pc' = [pc EXCEPT ![t] = "outer"]
            /\ UNCHANGED <<lock, fetch>>
            /\ UNCHANGED storeVars
            /\ UNCHANGED codecVars
            /\ UNCHANGED setupVars

\* the outer operation entering "with self._lock" before it calls the inner one
Inner_Holding(t) ==
    /\ pc[t] = "outer"
    /\ lock = 0
    /\ lock' = t
    /\ pc' = [pc EXCEPT ![t] = "acquire"]
    /\ UNCHANGED <<job, fetch>>
    /\ UNCHANGED storeVars
    /\ UNCHANGED codecVars
    /\ UNCHANGED setupVars

\* the outer operation, holding no lock, calls the inner one (self.get_events,
\* self.edit_reminder), which checks the permission and comes to its
\* "with self._lock"
Inner(t) ==
    /\ pc[t] = "outer"
    /\ IF JobRefused(job[t])
       THEN /\ Respond(job[t], JobArgs(job[t]), JobResult(job[t], FALSE))
            /\ pc' = [pc EXCEPT ![t] = "idle"]
            /\ UNCHANGED <<lock, job, fetch>>
       ELSE /\ pc' = [pc EXCEPT ![t] = "acquire"]
            /\ UNCHANGED <<lock, job, fetch>>
            /\ UNCHANGED storeVars
            /\ UNCHANGED codecVars
            /\ UNCHANGED setupVars

\* the locked section of create_reminder and edit_reminder when the native
\* save fails: the exception leaves the with block
SectionUnsaved(t) ==
    /\ pc[t] = "locked"
    /\ job[t] \in {"reminders_create", "reminders_complete"}
    /\ Respond(job[t], JobArgs(job[t]), JobUnsaved(job[t]))
    /\ lock' = 0
    /\ pc' = [pc EXCEPT ![t] = "idle"]
    /\ UNCHANGED <<job, fetch>>

InitNest ==
    /\ authStatus \in [Categories -> {"authorized", "denied"}]
    /\ items = <<>>
    /\ nextId = 1
    /\ call = [tool |-> "none"]
    /\ resp = <<>>
    /\ native = FALSE
    /\ ThreadsIdle
    /\ SetupIdle
    /\ CodecIdle

NextNest ==
    \/ \E t \in Threads : Call(t, "reminders_create")
    \/ \E t \in Threads, tool \in NestedTools : CallNested(t, tool)
    \/ \E t \in Threads : Inner(t)
    \/ \E t \in Threads : Acquire(t)
    \/ \E t \in Threads : Section(t)
    \/ \E t \in Threads : SectionUnsaved(t)

SpecNest == InitNest /\ [][NextNest]_vars

\* a thread between the outer and the inner operation goes on
FairNest == FairLock /\ \A t \in Threads : WF_vars(Inner(t))

SpecNestFair == SpecNest /\ FairNest

---------------------------------------------------------------------------
(* Edit runs: the store holds one item, an event or a reminder; each       *)
(* thread edits it once with success, changing one part of it: thread 1    *)
(* the tags, thread 2 the notes, any other thread the title.               *)

EditTools == {"calendar_edit_event", "reminders_edit"}

NewTags == << <<"b">> >>
NewNotes == <<"n">>
NewTitle == <<"m", "2">>

\* the part of the item thread t changes
EditPart(t) == IF t = 1 THEN "tags" ELSE IF t = 2 THEN "notes" ELSE "title"

EditTitle(t) == IF EditPart(t) = "title" THEN NewTitle ELSE None
EditNotes(t) == IF EditPart(t) = "notes" THEN NewNotes ELSE None
EditTags(t) == IF EditPart(t) = "tags" THEN NewTags ELSE NoneList

\* the arguments of thread t's call of the tool
EditArgs(t, tool) ==
    IF tool = "calendar_edit_event"
    THEN [event_id |-> InternalId(1), span |-> "this_event", title |-> EditTitle(t),
          start_date |-> "", end_date |-> "", location |-> None,
          notes |-> EditNotes(t), url |-> None, tags |-> EditTags(t)]
    ELSE [reminder_id |-> InternalId(1), title |-> EditTitle(t), notes |-> EditNotes(t),
          due_date |-> "", priority |-> None, completed |-> None, tags |-> EditTags(t)]

\* what the tool returns on the native store as it is now
EditResult(t, tool, saved) ==
    IF tool = "calendar_edit_event"
    THEN calendar_edit_event(InternalId(1), "this_event", EditTitle(t), "", "", None,
                             EditNotes(t), None, EditTags(t), saved)
    ELSE reminders_edit(InternalId(1), EditTitle(t), EditNotes(t), "", None, None,
                        EditTags(t), TRUE, saved)

\* the edit tool is called on thread t: edit_event / edit_reminder checks the
\* permission and comes to its "with self._lock"
CallEdit(t, tool) ==
    /\ pc[t] = "idle"
    /\ job' = [job EXCEPT ![t] = tool]
    /\ IF JobRefused(tool)
       THEN /\ Respond(tool, EditArgs(t, tool), EditResult(t, tool, FALSE))
            /\ UNCHANGED <<lock, pc, fetch>>
       ELSE /\ pc' = [pc EXCEPT ![t] = "acquire"]
            /\ UNCHANGED <<lock, fetch>>
            /\ UNCHANGED storeVars
            /\ UNCHANGED codecVars
            /\ UNCHANGED setupVars

\* the locked section of edit_event / edit_reminder: the item is looked up,
\* its current notes are decoded, the new values are set and saved; then the
\* return or the exception releases the lock.  An edit that succeeded is
\* done, one that failed can be called again.
EditSection(t, saved) ==
    /\ pc[t] = "locked"
    /\ Respond(job[t], EditArgs(t, job[t]), EditResult(t, job[t], saved))
    /\ lock' = 0
    /\ pc' = [pc EXCEPT ![t] = IF resp'.success THEN "done" ELSE "idle"]
    /\ UNCHANGED <<job, fetch>>

InitEdits ==
    /\ authStatus \in [Categories -> {"authorized", "denied"}]
    /\ items = <<>>
    /\ nextId = 1
    /\ call = [tool |-> "none"]
    /\ resp = <<>>
    /\ native = FALSE
    /\ ThreadsIdle
    /\ SetupIdle
    /\ CodecIdle

NextEdits ==
    \/ /\ ItemIds = {} /\ lock = 0
       /\ \E notes \in {None, <<"x">>}, tags \in {NoneList, TagA} :
             CalendarCreateEvent(TitleM, Day1, Day2, None, None, notes, None, FALSE,
                                 tags, TRUE)
    \/ /\ ItemIds = {} /\ lock = 0
       /\ \E notes \in {None, <<"x">>}, tags \in {NoneList, TagA} :
             RemindersCreate(TitleM, None, notes, "", None, tags, TRUE)
    \/ \E t \in Threads, tool \in EditTools : CallEdit(t, tool)
    \/ \E t \in Threads : Acquire(t)
    \/ \E t \in Threads, saved \in BOOLEAN : EditSection(t, saved)

SpecEdits == InitEdits /\ [][NextEdits]_vars

---------------------------------------------------------------------------
(* Listing runs: both categories authorized; the                           *)
(* store holds several events and reminders, created with and without a    *)
(* collection name, with equal and with different dates, and the items are *)
(* listed, read, edited and deleted by either identifier.                  *)

\* collection names as a caller may write them
WorkLower == <<"w","o","r","k">>
ShopUpper == <<"S","H","O","P">>
NoSuchName == <<"N","o","p","e">>

TagsBa == << <<"B">>, <<"a">> >>

\* start_date (also the end_date), calendar_name of the events created
EventProfiles ==
    { <<"2025-03-03", NoSuchName>>, <<Day1, None>>, <<Day1, WorkLower>>,
      <<"2027-03-01T09:00:00", None>> }

\* due_date, list_name, tags of the reminders created
ReminderProfiles ==
    { <<"", None, NoneList>>, <<Day1, ShopUpper, TagsBa>>,
      <<"9999-12-31T09:00:00", NoSuchName, NoneList>> }

\* the identifiers of the items the store can hold
ListedIds == {InternalId(n) : n \in 1..MaxListed} \cup {ExternalId(n) : n \in 1..MaxListed}

CreateEvent(start_date, calendar_name, saved) ==
    /\ nextId <= MaxListed
    /\ Answer("calendar_create_event",
              [title |-> TitleM, start_date |-> start_date, end_date |-> start_date,
               calendar_name |-> calendar_name, location |-> None, notes |-> None,
               url |-> None, is_all_day |-> FALSE, tags |-> NoneList],
              calendar_create_event(TitleM, start_date, start_date, calendar_name,
                                    None, None, None, FALSE, NoneList, saved))

CreateReminder(due_date, list_name, tags, saved) ==
    /\ nextId <= MaxListed
    /\ Answer("reminders_create",
              [title |-> TitleM, list_name |-> list_name, notes |-> None,
               due_date |-> due_date, priority |-> None, tags |-> tags],
              reminders_create(TitleM, list_name, None, due_date, None, tags, saved))

InitItems ==
    /\ authStatus = [c \in Categories |-> "authorized"]
    /\ items = <<>>
    /\ nextId = 1
    /\ call = [tool |-> "none"]
    /\ resp = <<>>
    /\ native = FALSE
    /\ ThreadsIdle
    /\ SetupIdle
    /\ CodecIdle

NextItems ==
    \/ \E p \in EventProfiles, saved \in BOOLEAN : CreateEvent(p[1], p[2], saved)
    \/ \E p \in ReminderProfiles, saved \in BOOLEAN :
          CreateReminder(p[1], p[2], p[3], saved)
    \/ \E limit \in {1, 50} :
          CalendarListEvents(Day1, "2025-09-01T09:00:00", None, limit)
    \/ \E limit \in {1, 100}, arrived \in BOOLEAN :
          RemindersList(None, FALSE, "", limit, arrived)
    \/ \E event_id \in ListedIds : CalendarGetEvent(event_id)
    \/ \E reminder_id \in ListedIds, arrived \in BOOLEAN :
          RemindersGet(reminder_id, arrived)
    \/ \E event_id \in ListedIds :
          CalendarEditEvent(event_id, "this_event", TitleM, "", "", None, None, None,
                            NoneList, TRUE)
    \/ \E reminder_id \in ListedIds, arrived \in BOOLEAN :
          RemindersEdit(reminder_id, TitleM, None, "", None, None, NoneList, arrived, TRUE)
    \/ \E event_id \in ListedIds : CalendarDeleteEvent(event_id, "this_event", TRUE)
    \/ \E reminder_id \in ListedIds, arrived \in BOOLEAN :
          RemindersDelete(reminder_id, arrived, TRUE)

SpecItems == InitItems /\ [][NextItems]_vars

---------------------------------------------------------------------------
(* Setup runs: scripts/setup_permissions.py is run once, beside a server   *)
(* that answers tool calls.  main requests the permissions, reads the      *)
(* final statuses and, when both are authorized, goes through the known    *)
(* clients; every SELECT and INSERT on the TCC database can fail.          *)

\* request_permissions of the script: each category is requested when its
\* status allows a request, and the dialog is answered or not
SetupRequestPermissions(calendar, reminders) ==
    /\ stage = "idle"
    /\ authStatus' =
          [authStatus EXCEPT
             !["event"] = IF @ \in {"not_determined", "write_only"} /\ calendar # "unanswered"
                          THEN calendar ELSE @,
             !["reminder"] = IF @ = "not_determined" /\ reminders # "unanswered"
                             THEN reminders ELSE @]
    /\ stage' = "requested"
    /\ UNCHANGED <<ledger, cursor, granted, log>>
    /\ UNCHANGED <<items, nextId, call, resp, native>>
    /\ UNCHANGED threadVars
    /\ UNCHANGED codecVars

\* main reads the final statuses: try_grant_via_tcc_db is entered when both
\* are authorized, the instructions are printed otherwise
SetupMain ==
    /\ stage = "requested"
    /\ stage' = IF authStatus["event"] = "authorized" /\ authStatus["reminder"] = "authorized"
                THEN "granting" ELSE "done"
    /\ UNCHANGED <<ledger, cursor, granted, log>>
    /\ UNCHANGED storeVars
    /\ UNCHANGED threadVars
    /\ UNCHANGED codecVars

\* one round of the loop of try_grant_via_tcc_db copying without looking
\* whether the client has the Reminders permission
TryGrantViaTccDb_Unguarded(readCalendar, readReminders, written) ==
    /\ stage = "granting"
    /\ IF _tcc_has_permission(Clients[cursor], "kTCCServiceCalendar", readCalendar)
       THEN UNCHANGED <<ledger, granted, log>>
       ELSE IF written
       THEN /\ ledger' = _tcc_copy_permission(Clients[cursor], "kTCCServiceReminders", "kTCCServiceCalendar")
            /\ granted' = Append(granted, Clients[cursor])
            /\ log' = log \o << <<"Copying", Clients[cursor]>>, <<"Granted", Clients[cursor]>> >>
       ELSE /\ log' = log \o << <<"Copying", Clients[cursor]>>, <<"Warning", Clients[cursor]>> >>
            /\ UNCHANGED <<ledger, granted>>
    /\ cursor' = cursor + 1
    /\ stage' = IF cursor = Len(Clients) THEN "done" ELSE "granting"
    /\ UNCHANGED storeVars
    /\ UNCHANGED threadVars
    /\ UNCHANGED codecVars

\* one round of the loop of try_grant_via_tcc_db, for the client at cursor
TryGrantViaTccDb(readCalendar, readReminders, written) ==
    /\ stage = "granting"
    /\ IF _tcc_has_permission(Clients[cursor], "kTCCServiceCalendar", readCalendar)
       THEN UNCHANGED <<ledger, granted, log>>
       ELSE IF ~_tcc_has_permission(Clients[cursor], "kTCCServiceReminders", readReminders)
       THEN UNCHANGED <<ledger, granted, log>>
       ELSE IF written
       THEN /\ ledger' = _tcc_copy_permission(Clients[cursor], "kTCCServiceReminders", "kTCCServiceCalendar")
            /\ granted' = Append(granted, Clients[cursor])
            /\ log' = log \o << <<"Copying", Clients[cursor]>>, <<"Granted", Clients[cursor]>> >>
       ELSE /\ log' = log \o << <<"Copying", Clients[cursor]>>, <<"Warning", Clients[cursor]>> >>
            /\ UNCHANGED <<ledger, granted>>
    /\ cursor' = cursor + 1
    /\ stage' = IF cursor = Len(Clients) THEN "done" ELSE "granting"
    /\ UNCHANGED storeVars
    /\ UNCHANGED threadVars
    /\ UNCHANGED codecVars

\* the server answers a call of one of its tools
ToolCall ==
    \/ EventkitCheckPermissions
    \/ CalendarListCalendars
    \/ CalendarListEvents(Day1, "2025-09-01T09:00:00", None, 50)
    \/ CalendarGetEvent(InternalId(1))
    \/ CalendarSearchEvents(TitleM, "", "", NoneList, 50)
    \/ CalendarCreateEvent(TitleM, Day1, Day2, None, None, None, None, FALSE, NoneList, FALSE)
    \/ CalendarEditEvent(InternalId(1), "this_event", TitleM, "", "", None, None, None, NoneList, TRUE)
    \/ CalendarDeleteEvent(InternalId(1), "this_event", TRUE)
    \/ RemindersListLists
    \/ RemindersList(None, FALSE, "", 100, TRUE)
    \/ RemindersGet(InternalId(1), TRUE)
    \/ RemindersSearch(TitleM, NoneList, FALSE, 50, TRUE)
    \/ RemindersCreate(TitleM, None, None, "", None, NoneList, FALSE)
    \/ RemindersEdit(InternalId(1), TitleM, None, "", None, None, NoneList, TRUE, TRUE)
    \/ RemindersComplete(InternalId(1), TRUE, TRUE)
    \/ RemindersDelete(InternalId(1), TRUE, TRUE)

\* the clients hold any grants when the script starts; a Reminders row with
\* another auth_value than 2 is read like no row
InitSetup ==
    /\ authStatus \in [Categories -> {"not_determined", "authorized"}]
    /\ items = <<>>
    /\ nextId = 1
    /\ call = [tool |-> "none"]
    /\ resp = <<>>
    /\ native = FALSE
    /\ ThreadsIdle
    /\ CodecIdle
    /\ ledger \in [Range(Clients) -> [Services -> Grants]]
    /\ \A c \in Range(Clients) : ledger[c]["kTCCServiceReminders"] # "denied"
    /\ stage = "idle"
    /\ cursor = 1
    /\ granted = <<>>
    /\ log = <<>>

NextSetup ==
    \/ \E calendar \in RequestOutcomes, reminders \in RequestOutcomes :
          SetupRequestPermissions(calendar, reminders)
    \/ SetupMain
    \/ \E readCalendar \in BOOLEAN, readReminders \in BOOLEAN, written \in BOOLEAN :
          TryGrantViaTccDb(readCalendar, readReminders, written)
    \/ ToolCall

SpecSetup == InitSetup /\ [][NextSetup]_vars

---------------------------------------------------------------------------
(* Codec runs: the inputs are drawn in the initial state, the steps apply  *)
(* merge_notes_with_tags and then decode_tags to its result.               *)

Alphabet == {"#", "a", " ", "\n"}

\* every text over Alphabet of length at most n
RECURSIVE TextsUpTo(_)
TextsUpTo(n) ==
    IF n = 0 THEN {<<>>}
    ELSE LET shorter == TextsUpTo(n - 1)
         IN  shorter \cup {Append(t, c) : t \in shorter, c \in Alphabet}

\* notes a caller or another application can write
SampleNotes ==
    { None,
      <<"x", " ">>,
      <<"B", "\n", "#", "A", "\n">>,
      <<" ", "#", "a", "\n", "#", "b">>,
      <<"x", "\n", "\n", "#", "b", " ", "#", "a">>,
      <<"x", " ", "#", "a">> }

CodecNotes == TextsUpTo(MaxLen) \cup SampleNotes

\* tag arguments: "a", "B", "a B", "!", " "
TagWords == { <<"a">>, <<"B">>, <<"a", " ", "B">>, <<"!">>, <<" ">> }

RECURSIVE ListsUpTo(_)
ListsUpTo(n) ==
    IF n = 0 THEN {<<>>}
    ELSE LET shorter == ListsUpTo(n - 1)
         IN  shorter \cup {Append(l, w) : l \in shorter, w \in TagWords}

CodecTagLists == ListsUpTo(MaxTags) \cup {NoneList}

StoreIdle ==
    /\ authStatus = [c \in {"event", "reminder"} |-> "not_determined"]
    /\ items = <<>>
    /\ nextId = 1
    /\ call = [tool |-> "none"]
    /\ resp = <<>>
    /\ native = FALSE
    /\ ThreadsIdle
    /\ SetupIdle

InitCodec ==
    /\ StoreIdle
    /\ tagNotes \in CodecNotes
    /\ tagList \in CodecTagLists
    /\ tagStage = "in"
    /\ tagMerged = None
    /\ tagDecoded = << None, <<>> >>

MergeStep ==
    /\ tagStage = "in"
    /\ tagMerged' = merge_notes_with_tags(tagNotes, tagList)
    /\ tagStage' = "merged"
    /\ UNCHANGED <<tagNotes, tagList, tagDecoded>>
    /\ UNCHANGED storeVars
    /\ UNCHANGED threadVars
    /\ UNCHANGED setupVars

DecodeStep ==
    /\ tagStage = "merged"
    /\ tagDecoded' = decode_tags(tagMerged)
    /\ tagStage' = "decoded"
    /\ UNCHANGED <<tagNotes, tagList, tagMerged>>
    /\ UNCHANGED storeVars
    /\ UNCHANGED threadVars
    /\ UNCHANGED setupVars

NextCodec == MergeStep \/ DecodeStep

SpecCodec == InitCodec /\ [][NextCodec]_vars

---------------------------------------------------------------------------
(* Properties of the codec (checked under SpecCodec) *)

\* the texts of a set of normalized tags in ascending order
RECURSIVE AscendingTags(_)
AscendingTags(S) ==
    IF S = {} THEN <<>>
    ELSE LET m == CHOOSE t \in S : \A u \in S : u = t \/ StrLess(t, u)
         IN  <<m>> \o AscendingTags(S \ {m})

\* the normalized entries of a tags argument, without the empty ones
NormalizedSet(T) ==
    IF T = NoneList THEN {}
    ELSE {_normalize_tag(T[i]) : i \in 1..Len(T)} \ {<<>>}

\* C1: decoding merge_notes_with_tags(notes, T) gives the notes without their
\* old trailing tag block, and the normalized, de-duplicated, sorted form of T,
\* for every notes text (leading or trailing whitespace and tag-only notes
\* included) and every T (entries normalizing to the empty string included).
C1_RoundTrip ==
    tagStage = "decoded" =>
        tagDecoded = << decode_tags(tagNotes)[1], AscendingTags(NormalizedSet(tagList)) >>

---------------------------------------------------------------------------
(* Properties of notes and tags through the tools (checked under SpecNotes) *)

\* the item dicts of the last response
ReturnedItems ==
    IF "event" \in DOMAIN resp THEN {resp.event}
    ELSE IF "reminder" \in DOMAIN resp THEN {resp.reminder}
    ELSE IF "events" \in DOMAIN resp THEN Range(resp.events)
    ELSE IF "reminders" \in DOMAIN resp THEN Range(resp.reminders)
    ELSE {}

\* C2: the notes of every item returned to a caller do not end with a block of
\* hashtag lines; the tags are reported in the tags field only.
C2_NotesNeverEncoded ==
    \A it \in ReturnedItems : HashtagLineGroup(it.notes) = 0

\* the last call was a successful search of events / of reminders
SearchedEvents ==
    /\ call.tool = "calendar_search_events"
    /\ resp.success
SearchedReminders ==
    /\ call.tool = "reminders_search"
    /\ resp.success

\* the query of the last call is in the searchable text of a returned dict
QueryIn(text) == IsSubstring(Lower(call.args.query), Lower(text))
EventText(d) ==
    OrEmpty(d.title) \o <<" ">> \o OrEmpty(d.location) \o <<" ">> \o OrEmpty(d.notes)
ReminderText(d) == OrEmpty(d.title) \o <<" ">> \o OrEmpty(d.notes)

\* the tags a stored item holds
TagsOf(n) == Range(decode_tags(OrEmpty(items[n].notes))[2])

\* the events of the search window of the last call
WindowEvents ==
    eventsMatchingPredicate_(
        IF call.args.start_date = "" THEN PlusDays(Now, 0 - 30)
        ELSE fromisoformat(call.args.start_date),
        IF call.args.end_date = "" THEN PlusDays(Now, 90)
        ELSE fromisoformat(call.args.end_date),
        EventCalendars)

\* C3: a search with a non-empty tag list S returns every candidate item whose
\* text contains the query and whose tag set holds all normalized tags of S.
C3_SearchComplete ==
    /\ (SearchedEvents /\ TruthyList(call.args.tags)) =>
          \A n \in WindowEvents :
              (/\ QueryIn(EventText(_event_to_dict(n, items[n])))
               /\ NormalizedSet(call.args.tags) \subseteq TagsOf(n))
              => \E i \in DOMAIN resp.events : resp.events[i].id = InternalId(n)
    /\ (SearchedReminders /\ TruthyList(call.args.tags)) =>
          \A n \in ReminderIds :
              (/\ call.args.include_completed \/ ~items[n].completed
               /\ QueryIn(ReminderText(_reminder_to_dict(n, items[n])))
               /\ NormalizedSet(call.args.tags) \subseteq TagsOf(n))
              => \E i \in DOMAIN resp.reminders : resp.reminders[i].id = InternalId(n)

\* C4: every item a search with tags returns holds all the requested tags, and
\* its text contains the query case-insensitively.
C4_SearchSound ==
    /\ (SearchedEvents /\ call.args.tags # NoneList) =>
          \A i \in DOMAIN resp.events :
              /\ NormalizedSet(call.args.tags) \subseteq Range(resp.events[i].tags)
              /\ QueryIn(EventText(resp.events[i]))
    /\ (SearchedReminders /\ call.args.tags # NoneList) =>
          \A i \in DOMAIN resp.reminders :
              /\ NormalizedSet(call.args.tags) \subseteq Range(resp.reminders[i].tags)
              /\ QueryIn(ReminderText(resp.reminders[i]))


\* the step is an edit of event / reminder n that succeeded
EditedEvent(n) ==
    /\ call'.tool = "calendar_edit_event"
    /\ resp'.success
    /\ resp'.event.id = InternalId(n)
EditedReminder(n) ==
    /\ call'.tool = "reminders_edit"
    /\ resp'.success
    /\ resp'.reminder.id = InternalId(n)

\* the tags item n holds after the step
TagsAfter(n) == Range(decode_tags(OrEmpty(items'[n].notes))[2])

\* C5: an edit with an explicit tags argument T (the empty list included)
\* leaves the item with exactly the normalized T as its tag set; an edit that
\* omits tags (even one that replaces the notes) leaves the tag set as it was.
C5_EditTags ==
    [][\A n \in ItemIds :
          (EditedEvent(n) \/ EditedReminder(n)) =>
              IF call'.args.tags # NoneList
              THEN TagsAfter(n) = NormalizedSet(call'.args.tags)
              ELSE TagsAfter(n) = TagsOf(n)]_vars

\* the dict of item n before and after the step
EventBefore(n) == _event_to_dict(n, items[n])
EventAfter(n) == _event_to_dict(n, items'[n])
ReminderBefore(n) == _reminder_to_dict(n, items[n])
ReminderAfter(n) == _reminder_to_dict(n, items'[n])

\* C6: an edit changes only the fields it supplies; every omitted field
\* (title, start, end, location, url, due date, priority, completed flag, note
\* body, tags) has the value it had before the edit.
C6_EditFrame ==
    [][\A n \in ItemIds :
          /\ EditedEvent(n) =>
                /\ call'.args.title = None => EventAfter(n).title = EventBefore(n).title
                /\ call'.args.start_date = "" =>
                      EventAfter(n).start_date = EventBefore(n).start_date
                /\ call'.args.end_date = "" =>
                      EventAfter(n).end_date = EventBefore(n).end_date
                /\ call'.args.location = None =>
                      EventAfter(n).location = EventBefore(n).location
                /\ call'.args.url = None => EventAfter(n).url = EventBefore(n).url
                /\ call'.args.notes = None => EventAfter(n).notes = EventBefore(n).notes
                /\ call'.args.tags = NoneList => EventAfter(n).tags = EventBefore(n).tags
          /\ EditedReminder(n) =>
                /\ call'.args.title = None =>
                      ReminderAfter(n).title = ReminderBefore(n).title
                /\ call'.args.due_date = "" =>
                      ReminderAfter(n).due_date = ReminderBefore(n).due_date
                /\ call'.args.priority = None =>
                      ReminderAfter(n).priority = ReminderBefore(n).priority
                /\ call'.args.completed = None =>
                      ReminderAfter(n).completed = ReminderBefore(n).completed
                /\ call'.args.notes = None =>
                      ReminderAfter(n).notes = ReminderBefore(n).notes
                /\ call'.args.tags = NoneList =>
                      ReminderAfter(n).tags = ReminderBefore(n).tags]_vars


---------------------------------------------------------------------------
(* Properties of the response envelope (checked under SpecTools) *)

Answered == call.tool # "none"
Failed == "success" \in DOMAIN resp /\ resp.success = FALSE

\* C7 as stated: every response of every registered tool, check_permissions
\* included, carries a boolean success flag.
C7_EveryResponseHasSuccess ==
    Answered => ("success" \in DOMAIN resp /\ resp.success \in BOOLEAN)

\* C7 as amended: every response of every tool other than check_permissions
\* carries a boolean success flag, on success and on failure; the response of
\* check_permissions is the status mapping (calendar, reminders,
\* all_authorized) and carries no success flag.
C7_ToolResponsesHaveSuccess ==
    /\ (Answered /\ call.tool # "eventkit_check_permissions") =>
          ("success" \in DOMAIN resp /\ resp.success \in BOOLEAN)
    /\ call.tool = "eventkit_check_permissions" =>
          /\ {"calendar", "reminders", "all_authorized"} \subseteq DOMAIN resp
          /\ "success" \notin DOMAIN resp

\* a listing refused for want of authorization: a failure response
C7_Witness ==
    /\ call.tool = "calendar_list_calendars"
    /\ Failed
    /\ resp.error = "permission_denied"

SpecErrorKinds ==
    {"permission_denied", "invalid_date", "invalid_input", "invalid_span",
     "not_found", "unexpected_error"}

\* C8 as stated: the error kind of every failure response is one of
\* permission_denied, invalid_date, invalid_input, invalid_span, not_found,
\* unexpected_error.
C8_ErrorKindsOfSpec ==
    Failed => resp.error \in SpecErrorKinds

\* C8 as amended: the error kind of every failure response is one of those six
\* or invalid_priority (reminders_create and reminders_edit given a priority
\* that is not none, low, medium or high); no other kind is returned.
C8_ErrorKinds ==
    Failed =>
        /\ resp.error \in SpecErrorKinds \cup {"invalid_priority"}
        /\ resp.error = "invalid_priority" =>
              /\ call.tool \in {"reminders_create", "reminders_edit"}
              /\ call.args.priority \notin PriorityNames

C8_Witness ==
    /\ call.tool = "reminders_edit"
    /\ Failed
    /\ resp.error = "invalid_priority"

\* the tools that take the identifier of an event / of a reminder
EventIdTools == {"calendar_get_event", "calendar_edit_event", "calendar_delete_event"}
ReminderIdTools ==
    {"reminders_get", "reminders_edit", "reminders_complete", "reminders_delete"}

\* the arguments a are valid for the tool
ValidSpan(a) == "span" \in DOMAIN a => a.span \in {"this_event", "future_events"}
ValidDate(a, k) == k \in DOMAIN a => (a[k] = "" \/ ~IsoRaises(a[k]))
ValidDates(a) ==
    /\ ValidDate(a, "start_date")
    /\ ValidDate(a, "end_date")
    /\ ValidDate(a, "due_date")
    /\ ValidDate(a, "due_before")
ValidPriority(a) ==
    "priority" \in DOMAIN a => (a.priority = None \/ a.priority \in PriorityNames)

\* C9: with the category authorized and valid arguments, edit, delete,
\* complete and get called with an identifier that matches no item of the
\* category answer not_found, never unexpected_error.
C9_MissingIsNotFound ==
    [][/\ (/\ call'.tool \in EventIdTools
           /\ authStatus["event"] = "authorized"
           /\ ValidSpan(call'.args) /\ ValidDates(call'.args)
           /\ \A n \in EventIds : /\ InternalId(n) # call'.args.event_id
                                  /\ ExternalId(n) # call'.args.event_id)
          => (resp'.success = FALSE /\ resp'.error = "not_found")
       /\ (/\ call'.tool \in ReminderIdTools
           /\ authStatus["reminder"] = "authorized"
           /\ ValidDates(call'.args) /\ ValidPriority(call'.args)
           /\ \A n \in ReminderIds : /\ InternalId(n) # call'.args.reminder_id
                                     /\ ExternalId(n) # call'.args.reminder_id)
          => (resp'.success = FALSE /\ resp'.error = "not_found")]_vars

\* a delete of an identifier that names nothing was answered not_found
C9_Witness ==
    /\ call.tool = "calendar_delete_event"
    /\ call.args.span = "this_event"
    /\ authStatus["event"] = "authorized"
    /\ items = <<>>
    /\ Failed
    /\ resp.error = "not_found"

\* the date arguments of a call that are given and are not ISO-8601
DateKeys == {"start_date", "end_date", "due_date", "due_before"}
BadDates(a) == {k \in DateKeys \cap DOMAIN a : a[k] # "" /\ IsoRaises(a[k])}

\* the identifier argument of a call resolves to no item of its category
ResolvesToNothing(c) ==
    IF "event_id" \in DOMAIN c.args
    THEN \A n \in EventIds : /\ InternalId(n) # c.args.event_id
                             /\ ExternalId(n) # c.args.event_id
    ELSE IF "reminder_id" \in DOMAIN c.args
    THEN \A n \in ReminderIds : /\ InternalId(n) # c.args.reminder_id
                                /\ ExternalId(n) # c.args.reminder_id
    ELSE FALSE

\* C10: a tool given a date string that is not ISO-8601 (its other arguments
\* valid) answers invalid_date, and a not_found answer is given only when the
\* identifier resolves to nothing.
C10_BadDateIsInvalidDate ==
    [][/\ (/\ call'.tool # "none"
           /\ BadDates(call'.args) # {}
           /\ ValidSpan(call'.args))
          => (resp'.success = FALSE /\ resp'.error = "invalid_date")
       /\ (/\ call'.tool # "none"
           /\ "success" \in DOMAIN resp'
           /\ resp'.success = FALSE
           /\ resp'.error = "not_found")
          => ResolvesToNothing(call')]_vars

---------------------------------------------------------------------------
(* Properties of the permission gate (checked under SpecGate) *)

CalendarDataTools ==
    {"calendar_list_calendars", "calendar_list_events", "calendar_get_event",
     "calendar_search_events", "calendar_create_event", "calendar_edit_event",
     "calendar_delete_event"}
ReminderDataTools ==
    {"reminders_list_lists", "reminders_list", "reminders_get", "reminders_search",
     "reminders_create", "reminders_edit", "reminders_complete", "reminders_delete"}

\* the arguments of a tool call pass the checks the tool makes itself
ValidArgs(a) == ValidSpan(a) /\ ValidDates(a) /\ ValidPriority(a)

\* the step answers a call of one of the tools (the status is the one the
\* gate of that call saw)
Answers(tools) == call'.tool \in tools /\ authStatus' = authStatus

\* the response after the step is the permission_denied failure
Denied == "success" \in DOMAIN resp' /\ resp'.success = FALSE /\ resp'.error = "permission_denied"

\* C11: a data tool called with valid arguments while the status of its
\* category is anything but authorized (write-only included, creates included)
\* answers permission_denied, does not use the native store handle and leaves
\* the native store as it was.
C11_PermissionGate ==
    [][/\ (/\ Answers(CalendarDataTools)
           /\ ValidArgs(call'.args)
           /\ authStatus["event"] # "authorized")
          => (Denied /\ ~native' /\ items' = items /\ nextId' = nextId)
       /\ (/\ Answers(ReminderDataTools)
           /\ ValidArgs(call'.args)
           /\ authStatus["reminder"] # "authorized")
          => (Denied /\ ~native' /\ items' = items /\ nextId' = nextId)]_vars

\* a create refused under write-only access to the events category
C11_Witness ==
    /\ call.tool = "calendar_create_event"
    /\ ValidArgs(call.args)
    /\ authStatus["event"] = "write_only"
    /\ Failed
    /\ resp.error = "permission_denied"
    /\ ~native

\* C12: whether a calendar tool is refused depends on the events status alone,
\* whether a reminder tool is refused on the reminders status alone, and a
\* consent request for one category leaves the status of the other as it was.
C12_CategoriesIndependent ==
    [][/\ (Answers(CalendarDataTools) /\ ValidArgs(call'.args))
          => (Denied <=> authStatus["event"] # "authorized")
       /\ (Answers(ReminderDataTools) /\ ValidArgs(call'.args))
          => (Denied <=> authStatus["reminder"] # "authorized")
       /\ call'.tool = "request_calendar_access"
          => authStatus'["reminder"] = authStatus["reminder"]
       /\ (call.tool = "request_calendar_access" /\ call'.tool = "request_reminders_access")
          => authStatus'["event"] = authStatus["event"]]_vars

\* a reminder tool answered from the store while the events category is denied
C12_Witness ==
    /\ call.tool = "reminders_complete"
    /\ authStatus["event"] = "denied"
    /\ authStatus["reminder"] = "authorized"
    /\ resp.success
    /\ native

---------------------------------------------------------------------------
(* Properties of the store lock (checked under SpecLock, SpecLockFair) *)

\* thread t is inside the locked section of its store operation, where the
\* native store handle is used
InSection(t) == pc[t] \in {"locked", "wait", "read", "expired"}

\* C13: under any interleaving at most one operation is inside its
\* native-store section, the one holding the store lock; every step that reads
\* or writes the native store is made by the holder of the lock.
C13_Serialized ==
    /\ [](/\ Cardinality({t \in Threads : InSection(t)}) <= 1
          /\ \A t \in Threads : InSection(t) => lock = t)
    /\ [][(items' # items \/ (native' /\ resp' # resp))
             => (lock # 0 /\ InSection(lock))]_vars

\* one thread waits for the fetch inside its section, the other for the lock
C13_Witness ==
    \E t \in Threads, u \in Threads :
        /\ t # u
        /\ pc[t] = "wait"
        /\ lock = t
        /\ pc[u] = "acquire"

\* C14 as stated: list_reminders always returns; when the completion has not
\* arrived as the bounded wait expires, it returns an empty list (a success),
\* without a retry, and releases the lock.
C14_TimeoutGivesEmpty ==
    /\ [][\A t \in Threads :
             (pc[t] = "expired" /\ pc'[t] # "expired")
             => /\ pc'[t] = "idle"
                /\ call'.tool = "reminders_list"
                /\ resp'.success
                /\ resp'.reminders = <<>>
                /\ lock' = 0]_vars
    /\ \A t \in Threads :
          (job[t] = "reminders_list" /\ pc[t] # "idle") ~> (pc[t] = "idle")

\* C14 as amended: list_reminders always returns; when the completion has
\* still not arrived as the result is read after the expired wait, it returns
\* an empty list (a success), without a retry, and releases the lock.
C14_BridgeReturns ==
    /\ [][\A t \in Threads :
             (pc[t] = "expired" /\ pc'[t] # "expired")
             => /\ pc'[t] = "idle"
                /\ call'.tool = "reminders_list"
                /\ resp'.success
                /\ fetch[t] = "pending" => resp'.reminders = <<>>
                /\ lock' = 0]_vars
    /\ \A t \in Threads :
          (job[t] = "reminders_list" /\ pc[t] # "idle") ~> (pc[t] = "idle")

\* a listing that came back empty, the lock free, with a reminder in the store
C14_Witness ==
    /\ call.tool = "reminders_list"
    /\ resp.success
    /\ resp.reminders = <<>>
    /\ ReminderIds # {}
    /\ lock = 0


---------------------------------------------------------------------------
(* Properties of listings and lookups (checked under SpecItems) *)

\* the last call was a successful listing of events
ListedEvents ==
    /\ call.tool = "calendar_list_events"
    /\ resp.success

\* the start instant (a day number) of a returned event
StartOf(d) == items[d.id[2]].start[2]

\* the events of the range of the last listing
RangeEvents ==
    eventsMatchingPredicate_(fromisoformat(call.args.start_date),
                             fromisoformat(call.args.end_date), EventCalendars)

\* the limit was applied after the sorting: as many events as the limit and
\* the range allow, none of them starting after an event left out
EarliestOfRange ==
    /\ Len(resp.events) = Min({call.args.limit, Cardinality(RangeEvents)})
    /\ \A i \in DOMAIN resp.events :
          /\ resp.events[i].id[2] \in RangeEvents
          /\ \A k \in RangeEvents \ {resp.events[j].id[2] : j \in DOMAIN resp.events} :
                StartOf(resp.events[i]) <= items[k].start[2]

\* C15 as stated: list_events returns its results strictly ordered by
\* ascending start instant, start(a) < start(b) for consecutive results a, b,
\* and the limit is applied after sorting.
C15_StrictlyAscending ==
    ListedEvents =>
        /\ \A i \in 1..(Len(resp.events) - 1) :
              StartOf(resp.events[i]) < StartOf(resp.events[i + 1])
        /\ EarliestOfRange

\* C15 as amended: list_events returns its results ordered by ascending start
\* instant, start(a) <= start(b) for consecutive results a, b (events that
\* start at the same instant follow one another), and the limit is applied
\* after sorting, so the returned events are the earliest-starting ones.
C15_AscendingByStart ==
    ListedEvents =>
        /\ \A i \in 1..(Len(resp.events) - 1) :
              StartOf(resp.events[i]) <= StartOf(resp.events[i + 1])
        /\ EarliestOfRange

\* a listing cut to one event that returned the event created second, which
\* starts before the one created first
C15_Witness ==
    /\ ListedEvents
    /\ call.args.limit = 1
    /\ Cardinality(RangeEvents) = 2
    /\ Len(resp.events) = 1
    /\ resp.events[1].id = InternalId(2)
    /\ items[2].start[2] < items[1].start[2]

\* the last call was a successful listing of reminders
ListedReminders ==
    /\ call.tool = "reminders_list"
    /\ resp.success

\* the due instant of a returned reminder, None when it has none
DueOf(d) == items[d.id[2]].due

\* reminder a is not to be listed after reminder b: a dated one goes before
\* an undated one, two dated ones by ascending due instant
DueBefore(a, b) ==
    \/ b = None
    \/ (a # None /\ a[2] <= b[2])

\* the reminders the last listing fetched when the fetch arrived
FetchedReminders == incompleteReminders(None, ReminderLists)

\* C16: list_reminders returns its results ordered by ascending due date,
\* every reminder without a due date after every reminder with one, and the
\* limit is applied after this ordering: no reminder left out of a cut
\* listing belongs before a returned one.
C16_DatedBeforeUndated ==
    ListedReminders =>
        /\ \A i \in 1..(Len(resp.reminders) - 1) :
              DueBefore(DueOf(resp.reminders[i]), DueOf(resp.reminders[i + 1]))
        /\ \A i \in DOMAIN resp.reminders :
              \A k \in FetchedReminders \ {resp.reminders[j].id[2] : j \in DOMAIN resp.reminders} :
                 DueBefore(DueOf(resp.reminders[i]), items[k].due)

\* C16 for due dates before the last day of the year 9999: the ordering and
\* the cut of the listing are as the claim says.
C16_OrderedBeforeEndOfTime ==
    (ListedReminders /\ \A n \in ReminderIds : items[n].due = None \/ items[n].due[2] < 2912749)
    => C16_DatedBeforeUndated

\* a listing cut to one reminder returned the dated reminder, created after
\* an undated one
C16_Witness ==
    /\ ListedReminders
    /\ call.args.limit = 1
    /\ Len(resp.reminders) = 1
    /\ resp.reminders[1].id = InternalId(2)
    /\ items[2].due = fromisoformat(Day1)
    /\ 1 \in ReminderIds
    /\ items[1].due = None

\* the last call read a reminder by the identifier its create returned
GotReminder ==
    /\ call.tool = "reminders_get"
    /\ call.args.reminder_id[1] = "id"
    /\ resp.success

\* the notes the native store holds for the reminder the last call read
StoredNotes == items[call.args.reminder_id[2]].notes

\* the hashtag block of the tags ["B", "a"], after the blank line
BlockOfBa == <<"\n", "\n", "#", "a", " ", "#", "b">>

\* C17 as stated: after create_reminder with no notes and tags T (here "B",
\* "a": the stored notes are the attribution line, a blank line and "#a #b"),
\* get_reminder on the returned id reports notes equal to the attribution
\* line, a blank line and the hashtag block of T, and tags equal to the sorted
\* normalized T.
C17_NotesWithHashtagBlock ==
    (GotReminder /\ StoredNotes = CREATED_BY_NOTE \o BlockOfBa) =>
        /\ resp.reminder.notes = CREATED_BY_NOTE \o BlockOfBa
        /\ resp.reminder.tags = AscendingTags(NormalizedSet(TagsBa))

\* C17 as amended: after create_reminder with no notes and tags T,
\* get_reminder on the returned id reports notes equal to the attribution
\* line alone (the hashtag block of T is in the stored notes only) and tags
\* equal to the sorted normalized T (no tags when T is omitted).
C17_CreateThenGet ==
    /\ (GotReminder /\ StoredNotes = CREATED_BY_NOTE \o BlockOfBa) =>
          /\ resp.reminder.notes = CREATED_BY_NOTE
          /\ resp.reminder.tags = AscendingTags(NormalizedSet(TagsBa))
    /\ (GotReminder /\ StoredNotes = CREATED_BY_NOTE) =>
          /\ resp.reminder.notes = CREATED_BY_NOTE
          /\ resp.reminder.tags = <<>>

\* a reminder created with the tags "B", "a" read back with the tags a, b
C17_Witness ==
    /\ GotReminder
    /\ StoredNotes = CREATED_BY_NOTE \o BlockOfBa
    /\ resp.reminder.tags = << <<"a">>, <<"b">> >>

\* the titles among titles that equal name when case is ignored
Named(titles, name) ==
    IF name = None THEN {}
    ELSE {titles[i] : i \in {j \in DOMAIN titles : Lower(titles[j]) = Lower(name)}}

\* where a create called with this collection name is to put its item
Target(titles, name, default) ==
    IF Named(titles, name) # {} THEN Named(titles, name) ELSE {default}

\* C18: create_event and create_reminder place the new item in the collection
\* whose title equals the given name ignoring case, and in the default
\* collection when no name is given or none matches; the create succeeds
\* whatever the name is (it fails only when the native save fails, never with
\* not_found or invalid_input).
C18_CollectionByName ==
    /\ call.tool = "calendar_create_event" =>
          IF resp.success
          THEN /\ resp.event.calendar \in
                     Target(EventCalendars, call.args.calendar_name, defaultCalendarForNewEvents)
               /\ items[resp.event.id[2]].calendar = resp.event.calendar
          ELSE resp.error = "unexpected_error"
    /\ call.tool = "reminders_create" =>
          IF resp.success
          THEN /\ resp.reminder.list \in
                     Target(ReminderLists, call.args.list_name, defaultCalendarForNewReminders)
               /\ items[resp.reminder.id[2]].calendar = resp.reminder.list
          ELSE resp.error = "unexpected_error"

\* a reminder created with a list name that matches nothing went to the
\* default list, after an event created as "work" went to the calendar Work
C18_Witness ==
    /\ call.tool = "reminders_create"
    /\ call.args.list_name = NoSuchName
    /\ resp.success
    /\ resp.reminder.list = <<"T","o","d","o">>
    /\ 1 \in EventIds
    /\ items[1].calendar = <<"W","o","r","k">>
    /\ items[1].start = fromisoformat(Day1)

\* the step answers a get, edit or delete of the item numbered n by the
\* identifier ident: the item is returned, or gone after the delete
ResolvedEvent(n) ==
    /\ resp'.success
    /\ IF call'.tool = "calendar_delete_event" THEN n \notin DOMAIN items'
       ELSE resp'.event.id = InternalId(n)

ResolvedReminder(n) ==
    /\ resp'.success
    /\ IF call'.tool = "reminders_delete" THEN n \notin DOMAIN items'
       ELSE resp'.reminder.id = InternalId(n)

\* C19: get, edit and delete resolve an identifier as the internal identifier
\* first and as the external identifier on a miss; for every event and every
\* reminder present in the store, a call passing its internal or its external
\* identifier resolves to that item and is never answered not_found.
C19_ExternalIdResolves ==
    [][\A n \in 1..MaxListed :
          /\ (/\ call'.tool \in EventIdTools
              /\ call'.args.event_id \in {InternalId(n), ExternalId(n)}
              /\ n \in EventIds)
             => ResolvedEvent(n)
          /\ (/\ call'.tool \in ReminderIdTools
              /\ call'.args.reminder_id \in {InternalId(n), ExternalId(n)}
              /\ n \in ReminderIds)
             => ResolvedReminder(n)]_vars

\* C19 within the reach of the lookup: the internal identifier of an item of
\* the store always resolves; the external identifier of an event resolves
\* when the event overlaps the 365 days before or after now.
C19_ResolvesWithinReach ==
    [][\A n \in 1..MaxListed :
          /\ (/\ call'.tool \in EventIdTools
              /\ n \in EventIds
              /\ \/ call'.args.event_id = InternalId(n)
                 \/ /\ call'.args.event_id = ExternalId(n)
                    /\ items[n].start[2] <= 365
                    /\ items[n].end[2] >= 0 - 365)
             => ResolvedEvent(n)
          /\ (/\ call'.tool \in ReminderIdTools
              /\ call'.args.reminder_id = InternalId(n)
              /\ n \in ReminderIds)
             => ResolvedReminder(n)]_vars

\* an event of the store read by its external identifier
C19_Witness ==
    /\ call.tool = "calendar_get_event"
    /\ call.args.event_id = ExternalId(2)
    /\ resp.success
    /\ resp.event.id = InternalId(2)
    /\ 1 \in EventIds
    /\ items[1].start[2] > 365

---------------------------------------------------------------------------
(* Properties of the setup script (checked under SpecSetup) *)

\* the step writes an events row for client c: the copy succeeded and c is
\* collected in granted
WritesRow(c) == granted' = Append(granted, c)

\* the step attempts the copy for client c: it prints "Copying ..." for c
AttemptsCopy(c) == Len(log') > Len(log) /\ log'[Len(log) + 1] = <<"Copying", c>>

\* the step belongs to try_grant_via_tcc_db: it attempts a copy, writes a row
\* or changes the access table
Remediates == log' # log \/ granted' # granted \/ ledger' # ledger

\* the remediation is attempted only for a client holding the reminders
\* grant, is entered only with both categories authorized for the running
\* process, and is no step of a tool call of the server
RemediationGuard ==
    /\ \A c \in Range(Clients) :
          AttemptsCopy(c) => ledger[c]["kTCCServiceReminders"] = "authorized"
    /\ (stage # "granting" /\ stage' = "granting")
          => (authStatus["event"] = "authorized" /\ authStatus["reminder"] = "authorized")
    /\ Remediates
          => (stage = "granting" /\ UNCHANGED <<items, nextId, call, resp, native, authStatus>>)

---------------------------------------------------------------------------
(* Properties of merging without tags (checked under SpecCodec) *)

\* C21 as stated: merge_notes_with_tags(notes, None) leaves notes unchanged:
\* for every notes string, the result equals the input notes.
C21_MergeNoneUnchanged ==
    (tagStage # "in" /\ tagList = NoneList /\ tagNotes # None) =>
        tagMerged = tagNotes

\* C21 as amended: merge_notes_with_tags(notes, None) appends no tag block;
\* for every notes string with no trailing hashtag line the result equals the
\* input notes, and for notes that end in a hashtag line the result is the
\* clean notes decode_tags gives for them (the text before that line,
\* stripped).
C21_MergeNoneStripsOldBlock ==
    (tagStage # "in" /\ tagList = NoneList /\ tagNotes # None) =>
        /\ HashtagLineGroup(tagNotes) = 0 => tagMerged = tagNotes
        /\ HashtagLineGroup(tagNotes) # 0 =>
               tagMerged = Strip(SubSeq(tagNotes, 1, HashtagLineStart(tagNotes) - 1))

\* notes with trailing whitespace and no hashtag line were merged with None
C21_Witness ==
    /\ tagStage = "merged"
    /\ tagList = NoneList
    /\ tagNotes = <<"x", " ">>
    /\ tagMerged = <<"x", " ">>

---------------------------------------------------------------------------
(* Properties of the stored tag block (checked under SpecNotes) *)

\* l is a list of normalized tokens, without duplicates, in ascending order
IsTagSet(l) ==
    /\ \A i \in 1..Len(l) : l[i] # <<>> /\ \A k \in 1..Len(l[i]) : IsNormChar(l[i][k])
    /\ \A i \in 1..Len(l), j \in 1..Len(l) : i < j => StrLess(l[i], l[j])

\* C22: after any sequence of create and edit operations, the tag block
\* stored in each item's notes, and the tags list returned for the item,
\* consists of normalized tokens (lowercase letters, digits, underscore) with
\* no duplicates, in ascending lexicographic order.
C22_TagSetInvariant ==
    /\ \A n \in ItemIds : IsTagSet(decode_tags(OrEmpty(items[n].notes))[2])
    /\ \A it \in ReturnedItems : IsTagSet(it.tags)

---------------------------------------------------------------------------
(* Properties of the notes of a created item (checked under SpecNotes) *)

\* the last call was a create that succeeded
Created ==
    /\ call.tool \in {"calendar_create_event", "reminders_create"}
    /\ resp.success

\* the item the last create returned, and the notes stored for it
CreatedDict == IF call.tool = "calendar_create_event" THEN resp.event ELSE resp.reminder
CreatedNotes == items[CreatedDict.id[2]].notes

\* the attribution line, a blank line, then N; the attribution line alone
\* when there are no notes
BodyOf(N) ==
    IF TruthyStr(N) THEN CREATED_BY_NOTE \o <<"\n", "\n">> \o N ELSE CREATED_BY_NOTE

\* C23: create_event and create_reminder called with non-empty notes N (with
\* or without tags) store and return notes whose body is exactly the
\* attribution line, a blank line, then N, also when N itself ends with a line
\* of hashtags; with no notes the body is the attribution line alone.  The
\* stored notes are the body followed by the encoded tags.
C23_NotesBodyKept ==
    Created =>
        /\ CreatedDict.notes = BodyOf(call.args.notes)
        /\ CreatedNotes = BodyOf(call.args.notes) \o encode_tags(call.args.tags)

---------------------------------------------------------------------------
(* Properties of the consent requests at startup (checked under SpecGate) *)

\* the statuses a consent request is meaningful from
Requestable(category) ==
    IF category = "event" THEN {"not_determined", "write_only"} ELSE {"not_determined"}

\* C24: check reports can_request true exactly when the status is
\* not-determined or, for events only, write-only; at startup
\* request_all_permissions issues a consent request for a category exactly
\* when can_request is true, so none is issued for a category that is
\* authorized, denied or restricted, nor for reminders in write-only.
C24_RequestOnlyWhenRequestable ==
    [][ /\ (call'.tool = "eventkit_check_permissions" /\ authStatus' = authStatus) =>
              /\ resp'.calendar.can_request <=> authStatus["event"] \in Requestable("event")
              /\ resp'.reminders.can_request <=> authStatus["reminder"] \in Requestable("reminder")
        /\ (call.tool = "none" /\ call'.tool = "request_calendar_access") =>
              ("event" \in call'.requested <=> authStatus["event"] \in Requestable("event"))
        /\ (call.tool = "request_calendar_access" /\ call'.tool = "request_reminders_access") =>
              /\ "reminder" \in call'.requested <=> authStatus["reminder"] \in Requestable("reminder")
              /\ "event" \in call'.requested <=> "event" \in call.requested
      ]_vars

\* the server started with write-only access to both categories: a request
\* was issued for events and none for reminders
C24_Witness ==
    /\ call.tool = "request_reminders_access"
    /\ call.requested = {"event"}
    /\ authStatus["reminder"] = "write_only"

---------------------------------------------------------------------------
(* Properties of the order of the checks (checked under SpecTools) *)

\* the category of the tool the step answers is not authorized
Unauthorized ==
    \/ call'.tool \in CalendarDataTools /\ authStatus["event"] # "authorized"
    \/ call'.tool \in ReminderDataTools /\ authStatus["reminder"] # "authorized"

\* the messages of the failures a tool returns for an argument it rejects
ArgumentMessages ==
    { "span must be 'this_event' or 'future_events'",
      "Invalid isoformat string",
      "Invalid date format",
      "priority must be 'none', 'low', 'medium', or 'high'" }

\* C25: the arguments are validated before the permission check, which comes
\* before the store operation: a call with an invalid argument (bad span, bad
\* date, bad priority) is answered with the failure of that argument even when
\* the category is unauthorized, without reaching the store, and a call with
\* valid arguments and an identifier that does not exist is answered
\* permission_denied, not not_found, when the category is unauthorized.
C25_ErrorPrecedence ==
    [][/\ (Unauthorized /\ ~ValidArgs(call'.args)) =>
             /\ resp'.success = FALSE
             /\ resp'.error # "permission_denied"
             /\ resp'.message \in ArgumentMessages
             /\ ~native' /\ items' = items
       /\ (Unauthorized /\ ValidArgs(call'.args) /\ ResolvesToNothing(call')) =>
             (Denied /\ ~native' /\ items' = items)]_vars

\* an edit with a bad span and an identifier that names nothing, answered
\* invalid_span while access to events is denied
C25_Witness ==
    /\ call.tool = "calendar_edit_event"
    /\ call.args.span = "all"
    /\ call.args.event_id = InternalId(0)
    /\ authStatus["event"] = "denied"
    /\ Failed
    /\ resp.error = "invalid_span"

---------------------------------------------------------------------------
(* Properties of the fetch completion callback (checked under SpecLock) *)

\* the step runs the completion callback of a fetch thread t issued
CallbackRuns(t) ==
    \/ fetch[t] = "pending" /\ fetch'[t] = "arrived"
    \/ fetch[t] = "late" /\ fetch'[t] = "none"

\* C27: a reminder-fetch completion callback touches the native reminder
\* objects and the fetch result only while the operation that issued the fetch
\* still holds the store lock: also after a timed-out wait, it never runs while
\* another operation is in its native-store section, and it never changes the
\* result already returned.
C27_CallbackUnderLock ==
    [][\A t \in Threads :
          CallbackRuns(t) =>
              /\ lock = t
              /\ \A u \in Threads : InSection(u) => u = t
              /\ resp' = resp]_vars

---------------------------------------------------------------------------
(* Properties of the lock discipline (checked under SpecNestFair) *)

\* thread t is in a tool call
Busy(t) == pc[t] # "idle"

\* C26: no store operation comes to acquire the store lock while it holds it
\* (search calls list, complete calls edit, each without the lock), the lock
\* is released on every way out of a locked section (return, not-found, save
\* failure), every tool call of concurrently issued ones completes, and the
\* lock is free when no call is under way.
C26_LockDiscipline ==
    /\ [](\A t \in Threads : pc[t] \in {"idle", "outer", "acquire"} => lock # t)
    /\ []((\A t \in Threads : ~Busy(t)) => lock = 0)
    /\ [][\A t \in Threads : (InSection(t) /\ ~Busy(t)') => lock' = 0]_vars
    /\ \A t \in Threads : Busy(t) ~> ~Busy(t)

\* complete_reminder, through edit_reminder, is in its locked section while a
\* search waits for the lock at get_events
C26_Witness ==
    \E t \in Threads, u \in Threads :
        /\ job[t] = "reminders_complete" /\ pc[t] = "locked" /\ lock = t
        /\ job[u] = "calendar_search_events" /\ pc[u] = "acquire"

---------------------------------------------------------------------------
(* Properties of concurrent edits (checked under SpecEdits) *)

\* the item carries the value thread t's edit gave to its part
Carries(t) ==
    /\ 1 \in ItemIds
    /\ EditPart(t) = "tags" => decode_tags(OrEmpty(items[1].notes))[2] = NewTags
    /\ EditPart(t) = "notes" => decode_tags(OrEmpty(items[1].notes))[1] = NewNotes
    /\ EditPart(t) = "title" => items[1].title = NewTitle

\* C28: concurrent edits of the same item that change different parts (one
\* only the tags, one only the notes, one only the title) all take effect:
\* once an edit has completed, the item carries the new value of its part,
\* whatever edits complete before or after it.
C28_NoLostUpdate ==
    \A t \in Threads : pc[t] = "done" => Carries(t)

\* the tags edit and the notes edit have both completed on one item
C28_Witness ==
    /\ pc[1] = "done"
    /\ pc[2] = "done"
    /\ Carries(1)
    /\ Carries(2)

---------------------------------------------------------------------------
(* Properties of failed calls (checked under SpecTools) *)

\* the error kinds of a call refused for its arguments, its permission or its
\* identifier
RefusalKinds ==
    {"permission_denied", "not_found", "invalid_span", "invalid_date", "invalid_input"}

\* the step answers a tool call with a failure of one of these kinds
Refuses ==
    /\ call'.tool # "none"
    /\ "success" \in DOMAIN resp'
    /\ resp'.success = FALSE
    /\ resp'.error \in RefusalKinds

\* C29: a tool call that ends in permission_denied, not_found, invalid_span,
\* invalid_date or invalid_input leaves the store unchanged: no item is
\* created, modified or deleted, and every item's fields, notes and tags are
\* the same as before the call.
C29_RefusalLeavesStore ==
    [][Refuses => (items' = items /\ nextId' = nextId)]_vars

\* a delete of an existing event refused for its span, the event still there
C29_Witness ==
    /\ call.tool = "calendar_delete_event"
    /\ Failed
    /\ resp.error = "invalid_span"
    /\ call.args.event_id = InternalId(1)
    /\ 1 \in EventIds


---------------------------------------------------------------------------
(* Kind segregation (checked under SpecTools) *)

\* the identifier names an item of the set ids, by its calendarItemIdentifier
\* or by its calendarItemExternalIdentifier
Names(ident, ids) == \E n \in ids : ident \in {InternalId(n), ExternalId(n)}

\* C30: get_event, edit_event and delete_event called (with valid arguments,
\* events authorized) with the identifier of a reminder answer not_found and
\* leave the store, that reminder included, as it was; get_reminder,
\* edit_reminder, complete_reminder and delete_reminder called with the
\* identifier of an event likewise answer not_found and leave the store as it
\* was.
C30_KindSegregation ==
    [][/\ (/\ call'.tool \in EventIdTools
           /\ authStatus["event"] = "authorized"
           /\ ValidArgs(call'.args)
           /\ Names(call'.args.event_id, ReminderIds))
          => /\ resp'.success = FALSE
             /\ resp'.error = "not_found"
             /\ items' = items
       /\ (/\ call'.tool \in ReminderIdTools
           /\ authStatus["reminder"] = "authorized"
           /\ ValidArgs(call'.args)
           /\ Names(call'.args.reminder_id, EventIds))
          => /\ resp'.success = FALSE
             /\ resp'.error = "not_found"
             /\ items' = items]_vars

\* a delete_event of the identifier of a stored reminder was answered
\* not_found and the reminder is still stored
C30_Witness ==
    /\ call.tool = "calendar_delete_event"
    /\ call.args.span = "this_event"
    /\ authStatus["event"] = "authorized"
    /\ Names(call.args.event_id, ReminderIds)
    /\ Failed
    /\ resp.error = "not_found"


=============================================================================
